---- MODULE Spec2Model ----
(***************************************************************************)
(* A model of @a11ytools/focus-management: the focusability classifier,   *)
(* the focusable enumerator, the focus-state keeper, the first-focus      *)
(* director and the useFocusTrap controller, over a small DOM.            *)
(***************************************************************************)
EXTENDS Integers, Sequences, FiniteSets, TLC

(***************************************************************************)
(* Bounds of the model.                                                    *)
(***************************************************************************)
\* tabbable-looking children (buttons) inside the first container
NumChildren == 2
\* nesting of synchronous focusin dispatch before the engine's stack overflows
MaxDispatch == 4

\* JavaScript null / undefined
Null == -1

(***************************************************************************)
(* The DOM (external collaborator).  Nodes are numbered in document        *)
(* order.  A node is an element or a shadow root; a shadow root has no     *)
(* parent and names its host.                                              *)
(***************************************************************************)
N == [body    |-> 0,
      opener  |-> 1,
      c1      |-> 2,
      first1  |-> 3,
      last1   |-> 2 + NumChildren,
      c2      |-> 3 + NumChildren,
      first2  |-> 4 + NumChildren,
      last2   |-> 5 + NumChildren]

Nodes == (N.body)..(N.last2)

Children1 == (N.first1)..(N.last1)
Children2 == (N.first2)..(N.last2)
Containers == {N.c1, N.c2}

NoAttr == "<absent>"

Element(tag, parent) ==
  [kind |-> "element", parent |-> parent, host |-> Null, mode |-> "",
   tag |-> tag, tabindex |-> NoAttr, hidden |-> FALSE, displayNone |-> FALSE,
   visibilityHidden |-> FALSE, ariaHidden |-> FALSE, disabled |-> FALSE,
   href |-> FALSE, typeHidden |-> FALSE, controls |-> FALSE, open |-> FALSE,
   contentEditable |-> FALSE]

\* The page the trap sessions live in: an opener button outside, and two
\* sibling overlay containers holding buttons.
PageDom ==
  [n \in Nodes |->
     IF n = N.body THEN Element("body", Null)
     ELSE IF n = N.opener THEN Element("button", N.body)
     ELSE IF n \in Containers THEN Element("div", N.body)
     ELSE IF n \in Children1 THEN Element("button", N.c1)
     ELSE Element("button", N.c2)]

Sessions == {1, 2}
Managers == {1, 2}
Container(s) == IF s = 1 THEN N.c1 ELSE N.c2

\* identities of the callbacks a host may pass (undefined, or one of two functions)
Undefined == "undefined"
Callbacks == {Undefined, "cb1", "cb2"}
NoCleanup == "<none>"

VARIABLES
  dom,               \* node -> attributes
  activeElement,     \* document.activeElement
  throwsOn,          \* elements whose focus() throws (hostile objects)
  inert,             \* elements whose focus() silently does nothing
  layout,            \* where the second container sits: "sibling" or "nested"
  savedFocusElement, \* returnFocus.ts: the module-level default slot
  savedElement,      \* createFocusManager: each manager's private slot
  mounted,           \* session -> the hook instance is mounted
  props,             \* session -> the options of the last render
  containerRef,      \* session -> containerRef.current
  hasSavedFocus,     \* session -> hasSavedFocus.current
  cleanup,           \* session -> the cleanups React holds for the four effects
  keydownListeners,  \* document's keydown listeners, in registration order
  focusinListeners,  \* document's focusin listeners, in registration order
  timers,            \* pending auto-focus timeouts (the session of each)
  microtasks,        \* the microtask queue: deferred restores
  log                \* the calls made by the last step

domVars == <<dom, throwsOn, inert, layout>>
keeperVars == <<savedFocusElement, savedElement>>
hookVars == <<mounted, props, containerRef, hasSavedFocus, cleanup,
              keydownListeners, focusinListeners, timers, microtasks>>
vars == <<dom, activeElement, throwsOn, inert, layout, savedFocusElement,
          savedElement, mounted, props, containerRef, hasSavedFocus, cleanup,
          keydownListeners, focusinListeners, timers, microtasks, log>>

(***************************************************************************)
(* String-to-number conversions used on the tabindex attribute.            *)
(***************************************************************************)
TabIndexValues == {"-1", "0", "1", "2", "3", "-2", "", "abc", "2px"}

NaN == [nan |-> TRUE, n |-> 0]
Num(k) == [nan |-> FALSE, n |-> k]

\* parseInt(s, 10): the longest integer prefix, NaN when there is none
parseInt(s) ==
  CASE s = "-1"  -> Num(-1)
    [] s = "0"   -> Num(0)
    [] s = "1"   -> Num(1)
    [] s = "2"   -> Num(2)
    [] s = "3"   -> Num(3)
    [] s = "-2"  -> Num(-2)
    [] s = "2px" -> Num(2)
    [] OTHER     -> NaN

\* Number(s): the whole string must be a numeric literal; "" is 0
Number(s) ==
  CASE s = "-1"  -> Num(-1)
    [] s = "0"   -> Num(0)
    [] s = "1"   -> Num(1)
    [] s = "2"   -> Num(2)
    [] s = "3"   -> Num(3)
    [] s = "-2"  -> Num(-2)
    [] s = ""    -> Num(0)
    [] OTHER     -> NaN

(***************************************************************************)
(* DOM queries.                                                            *)
(***************************************************************************)
parentElement(d, e) ==
  LET p == d[e].parent
  IN IF p # Null /\ d[p].kind = "element" THEN p ELSE Null

RECURSIVE isConnected(_, _)
isConnected(d, n) ==
  IF n = N.body THEN TRUE
  ELSE IF d[n].kind = "shadow" THEN isConnected(d, d[n].host)
  ELSE IF d[n].parent = Null THEN FALSE
  ELSE isConnected(d, d[n].parent)

\* container.contains(n): inclusive descendant, not crossing shadow roots
RECURSIVE contains(_, _, _)
contains(d, c, n) ==
  IF n = Null THEN FALSE
  ELSE IF n = c THEN TRUE
  ELSE contains(d, c, d[n].parent)

\* element.disabled: a property of form controls only
DisabledTags == {"button", "input", "select", "textarea", "fieldset",
                 "optgroup", "option"}
disabledProp(d, e) == d[e].disabled /\ d[e].tag \in DisabledTags

\* the nodes in document order
DocumentOrder(d) == [i \in 1..Cardinality(DOMAIN d) |-> i - 1]

\* a query that descends into shadow trees as well
RECURSIVE containsAcrossShadow(_, _, _)
containsAcrossShadow(d, c, n) ==
  IF n = Null THEN FALSE
  ELSE IF n = c THEN TRUE
  ELSE containsAcrossShadow(d, c, IF d[n].kind = "shadow" THEN d[n].host ELSE d[n].parent)

querySelectorAllPiercing(d, c) ==
  SelectSeq(DocumentOrder(d),
            LAMBDA n : n # c /\ d[n].kind = "element" /\ containsAcrossShadow(d, c, n))

\* container.querySelectorAll('*'): the proper element descendants, in
\* document order
querySelectorAll(d, c) ==
  SelectSeq(DocumentOrder(d),
            LAMBDA n : n # c /\ d[n].kind = "element" /\ contains(d, c, n))

(***************************************************************************)
(* Focusability classifier (isFocusable.ts).                               *)
(***************************************************************************)
hiddenMarker(d, e) ==
  d[e].hidden \/ d[e].displayNone \/ d[e].visibilityHidden

\* an ancestor walk that looks at the parent only
hasHiddenParent(d, p) ==
  IF p = Null THEN FALSE ELSE d[p].ariaHidden \/ hiddenMarker(d, p)

RECURSIVE hasHiddenAncestor(_, _)
hasHiddenAncestor(d, p) ==
  IF p = Null THEN FALSE
  ELSE IF d[p].ariaHidden \/ hiddenMarker(d, p) THEN TRUE
  ELSE hasHiddenAncestor(d, parentElement(d, p))

focusableByTag(d, e) ==
  LET t == d[e].tag
  IN CASE t \in {"a", "area"} -> d[e].href
       [] t = "input" -> ~d[e].typeHidden
       [] t \in {"textarea", "select", "summary", "button"} -> TRUE
       [] t \in {"audio", "video"} -> d[e].controls
       [] t = "details" -> d[e].open
       [] OTHER -> d[e].contentEditable

\* a classifier that applies the tabindex rule before its exclusions
isFocusableTabIndexFirst(d, e) ==
  IF e = Null THEN FALSE
  ELSE IF /\ d[e].tabindex # NoAttr
          /\ ~parseInt(d[e].tabindex).nan
          /\ parseInt(d[e].tabindex).n >= 0 THEN TRUE
  ELSE IF ~isConnected(d, e) THEN FALSE
  ELSE IF d[e].tabindex = "-1" THEN FALSE
  ELSE IF hiddenMarker(d, e) THEN FALSE
  ELSE IF d[e].ariaHidden THEN FALSE
  ELSE IF disabledProp(d, e) THEN FALSE
  ELSE IF hasHiddenAncestor(d, parentElement(d, e)) THEN FALSE
  ELSE focusableByTag(d, e)

isFocusable(d, e) ==
  IF e = Null THEN FALSE
  ELSE IF ~isConnected(d, e) THEN FALSE
  ELSE IF d[e].tabindex = "-1" THEN FALSE
  ELSE IF hiddenMarker(d, e) THEN FALSE
  ELSE IF d[e].ariaHidden THEN FALSE
  ELSE IF disabledProp(d, e) THEN FALSE
  ELSE IF hasHiddenAncestor(d, parentElement(d, e)) THEN FALSE
  ELSE IF /\ d[e].tabindex # NoAttr
          /\ d[e].tabindex # "-1"
          /\ ~parseInt(d[e].tabindex).nan
          /\ parseInt(d[e].tabindex).n >= 0 THEN TRUE
  ELSE focusableByTag(d, e)

\* a tabbability test that takes every element
isTabbableAnything(d, e) == e # Null

\* a tabbability test that looks at the tag only
isTabbableByTag(d, e) ==
  IF e = Null THEN FALSE
  ELSE IF d[e].tag \in {"a", "area"} THEN d[e].href
  ELSE IF d[e].tag = "input" THEN ~disabledProp(d, e) /\ ~d[e].typeHidden
  ELSE IF d[e].tag \in {"button", "select", "textarea"} THEN ~disabledProp(d, e)
  ELSE TRUE

isTabbable(d, e) ==
  IF ~isFocusable(d, e) THEN FALSE
  ELSE IF d[e].tabindex = "-1" THEN FALSE
  ELSE IF d[e].tag \in {"a", "area"} THEN d[e].href
  ELSE IF d[e].tag = "input" THEN ~disabledProp(d, e) /\ ~d[e].typeHidden
  ELSE IF d[e].tag \in {"button", "select", "textarea"} THEN ~disabledProp(d, e)
  ELSE TRUE

(***************************************************************************)
(* Focusable enumerator (getFocusableElements.ts).                         *)
(***************************************************************************)
\* a pre-filter that selects by tag name only
potentiallyFocusableByTag(d, n) ==
  d[n].tag \in {"a", "area", "button", "input", "select", "textarea", "summary",
                "audio", "video", "details"}

potentiallyFocusable(d, n) ==
  LET t == d[n].tag
  IN \/ t \in {"a", "area"} /\ d[n].href
     \/ t \in {"button", "input", "select", "textarea", "summary"}
     \/ d[n].tabindex # NoAttr
     \/ d[n].contentEditable
     \/ t \in {"audio", "video"} /\ d[n].controls
     \/ t = "details" /\ d[n].open

\* a lookup that hands out the shadow root of a host whatever its mode
shadowRootOfAnyMode(d, el) ==
  IF \E r \in DOMAIN d : d[r].kind = "shadow" /\ d[r].host = el
  THEN CHOOSE r \in DOMAIN d : d[r].kind = "shadow" /\ d[r].host = el
  ELSE Null

\* el.shadowRoot of an element: its open shadow root, else Null
isOpenShadowRootOf(d, r, el) ==
  d[r].kind = "shadow" /\ d[r].host = el /\ d[r].mode = "open"

shadowRoot(d, el) ==
  IF \E r \in DOMAIN d : isOpenShadowRootOf(d, r, el)
  THEN CHOOSE r \in DOMAIN d : isOpenShadowRootOf(d, r, el)
  ELSE Null

tabIndexNumber(d, e) ==
  Number(IF d[e].tabindex \in {NoAttr, ""} THEN "0" ELSE d[e].tabindex)

\* a comparator that leaves every pair as it is
compareNothing(d, a, b) == 0

\* the comparator handed to Array.prototype.sort
compareTabIndex(d, a, b) ==
  LET x == tabIndexNumber(d, a)
      y == tabIndexNumber(d, b)
      xPos == ~x.nan /\ x.n > 0
      yPos == ~y.nan /\ y.n > 0
  IN IF xPos /\ yPos THEN x.n - y.n
     ELSE IF xPos THEN -1
     ELSE IF yPos THEN 1
     ELSE 0

\* Array.prototype.sort: a stable sort
RECURSIVE insertSorted(_, _, _)
insertSorted(d, sorted, x) ==
  IF sorted = <<>> THEN <<x>>
  ELSE LET lastEl == sorted[Len(sorted)]
       IN IF compareTabIndex(d, lastEl, x) > 0
          THEN insertSorted(d, SubSeq(sorted, 1, Len(sorted) - 1), x) \o <<lastEl>>
          ELSE sorted \o <<x>>

RECURSIVE stableSort(_, _)
stableSort(d, s) ==
  IF s = <<>> THEN <<>>
  ELSE insertSorted(d, stableSort(d, SubSeq(s, 1, Len(s) - 1)), s[Len(s)])

\* an enumerator that trusts the pre-filter and keeps every candidate
filterKeepingAll(d, candidates, onlyTabbable) == candidates

\* potentiallyFocusableElements.filter(isElementFocusable)
filterFocusable(d, candidates, onlyTabbable) ==
  SelectSeq(candidates,
            LAMBDA e : IF onlyTabbable THEN isTabbable(d, e) ELSE isFocusable(d, e))

RECURSIVE getFocusableElements(_, _, _, _)
RECURSIVE shadowFocusable(_, _, _, _)
\* the results of the recursive calls on each host's open shadow root, appended
shadowFocusable(d, hosts, onlyTabbable, includeShadowDOM) ==
  IF hosts = <<>> THEN <<>>
  ELSE getFocusableElements(d, shadowRoot(d, Head(hosts)), onlyTabbable, includeShadowDOM)
       \o shadowFocusable(d, Tail(hosts), onlyTabbable, includeShadowDOM)

getFocusableElements(d, container, onlyTabbable, includeShadowDOM) ==
  IF container = Null THEN <<>>
  ELSE
    LET light == SelectSeq(querySelectorAll(d, container),
                           LAMBDA n : potentiallyFocusable(d, n))
        hosts == SelectSeq(querySelectorAll(d, container),
                           LAMBDA n : shadowRoot(d, n) # Null)
        candidates ==
          IF includeShadowDOM
          THEN light \o shadowFocusable(d, hosts, onlyTabbable, includeShadowDOM)
          ELSE light
    IN stableSort(d, filterFocusable(d, candidates, onlyTabbable))

\* An options object: the options the caller gave, by name.  A destructuring
\* default applies to each option left out.
Options == UNION {[given -> BOOLEAN] : given \in SUBSET {"onlyTabbable", "includeShadowDOM"}}
Given(options, name, default) ==
  IF name \in DOMAIN options THEN options[name] ELSE default

\* getFocusableElements(container, options)
getFocusableElementsWith(d, container, options) ==
  getFocusableElements(d, container,
                       Given(options, "onlyTabbable", FALSE),
                       Given(options, "includeShadowDOM", TRUE))

(***************************************************************************)
(* The browser's side of focus (external collaborator).                    *)
(***************************************************************************)
RECURSIVE renderedHidden(_, _)
renderedHidden(d, e) ==
  IF e = Null THEN FALSE
  ELSE IF hiddenMarker(d, e) THEN TRUE
  ELSE renderedHidden(d, parentElement(d, e))

\* whether element.focus() takes effect in the browser
browserFocusable(d, e) ==
  /\ e # Null
  /\ d[e].kind = "element"
  /\ isConnected(d, e)
  /\ ~renderedHidden(d, e)
  /\ ~disabledProp(d, e)
  /\ \/ d[e].tabindex # NoAttr /\ ~parseInt(d[e].tabindex).nan
     \/ focusableByTag(d, e)
  /\ e \notin inert

\* focus fix-up: an active element that stops being focusable gives way to body
fixup(d, a) == IF a # N.body /\ ~browserFocusable(d, a) THEN N.body ELSE a

Call(op, s, e) == [op |-> op, s |-> s, e |-> e]

\* The running JavaScript turn: the DOM, the active element, the calls made so
\* far, whether the last call threw, its return value, whether the event being
\* dispatched had its default prevented, and the stack left for nested dispatch.
World(d, a, budget) ==
  [dom |-> d, active |-> a, log |-> <<>>, threw |-> FALSE, ret |-> Null,
   prevented |-> FALSE, budget |-> budget]

Logged(w, op, s, e) == [w EXCEPT !.log = Append(@, Call(op, s, e))]

RECURSIVE focus(_, _, _)
RECURSIVE dispatchFocusin(_, _, _, _)
RECURSIVE focusFirstElement(_, _, _, _, _)
RECURSIVE focusFirstElementOf(_, _, _)

(***************************************************************************)
(* First-focus director (focusFirstElement.ts).                            *)
(***************************************************************************)
\* an outcome that is the element whether or not focus() threw
focusFirstElementResultUnchecked(r, element) == [r EXCEPT !.ret = element]

\* the outcome of focusFirstElement once elements[0].focus() has run: the
\* element, or null after a caught exception
focusFirstElementResult(r, element) ==
  IF r.threw
  THEN [Logged(r, "console.error", 0, element) EXCEPT !.threw = FALSE, !.ret = Null]
  ELSE [r EXCEPT !.ret = element]

\* focusFirstElement from the enumeration on
focusFirstElementOf(w, elements, depth) ==
  IF Len(elements) > 0
  THEN focusFirstElementResult(focus(w, elements[1], depth), elements[1])
  ELSE [w EXCEPT !.ret = Null]

focusFirstElement(w, container, onlyTabbable, includeShadowDOM, depth) ==
  IF container = Null THEN [w EXCEPT !.ret = Null]
  ELSE focusFirstElementOf(
         w, getFocusableElements(w.dom, container, onlyTabbable, includeShadowDOM), depth)

\* focusFirstElement(container, options)
focusFirstElementWith(w, container, options) ==
  focusFirstElement(w, container,
                    Given(options, "onlyTabbable", TRUE),
                    Given(options, "includeShadowDOM", TRUE), 0)

\* The selectors a caller passes: the empty string, a type selector, the
\* universal selector, and a malformed one (querySelectorAll throws on it).
Malformed == "button["
Selectors == {"", "button", "div", "*", Malformed}

\* element.matches(selector)
matches(d, n, selector) == selector = "*" \/ d[n].tag = selector

\* container.querySelectorAll(selector): the matching proper descendants, in
\* document order
querySelectorAllMatching(d, c, selector) ==
  SelectSeq(querySelectorAll(d, c), LAMBDA n : matches(d, n, selector))

RECURSIVE focusEach(_, _)

\* a loop body that returns the element without re-reading the active element
focusedOrNextUnverified(r, element, rest) ==
  IF r.threw THEN focusEach([r EXCEPT !.threw = FALSE], rest)
  ELSE [r EXCEPT !.ret = element]

\* the loop body of focusFirstElementBySelector after element.focus(): the
\* element when it is the active element, else on to the next one
focusedOrNext(r, element, rest) ==
  IF r.threw THEN focusEach([r EXCEPT !.threw = FALSE], rest)
  ELSE IF r.active = element THEN [r EXCEPT !.ret = element]
  ELSE focusEach(r, rest)

\* the loop over the matches
focusEach(w, elements) ==
  IF elements = <<>> THEN [w EXCEPT !.ret = Null]
  ELSE focusedOrNext(focus(w, Head(elements), 0), Head(elements), Tail(elements))

\* focusFirstElementBySelector(container, selector)
focusFirstElementBySelector(w, container, selector) ==
  IF container = Null \/ selector = "" THEN [w EXCEPT !.ret = Null]
  ELSE IF selector = Malformed
  THEN [Logged(w, "console.error", 0, container) EXCEPT !.ret = Null]
  ELSE focusEach(w, querySelectorAllMatching(w.dom, container, selector))

\* a focusin listener that lets the focus go where it went
handleFocusOutLettingGo(w, s, target, depth) == w

\* a focusin listener that prevents the default and pulls nothing back
handleFocusOutPreventingOnly(w, s, target, depth) ==
  IF /\ containerRef[s] # Null
     /\ target # Null
     /\ ~contains(w.dom, containerRef[s], target)
  THEN Logged(w, "preventDefault", s, target)
  ELSE w

\* useFocusTrap.ts: the focusin listener of session s
handleFocusOut(w, s, target, depth) ==
  IF /\ containerRef[s] # Null
     /\ target # Null
     /\ ~contains(w.dom, containerRef[s], target)
  THEN focusFirstElement(Logged(w, "preventDefault", s, target),
                         containerRef[s], TRUE, TRUE, depth)
  ELSE w

\* the document's focusin listeners run in registration order
dispatchFocusin(w, target, listeners, depth) ==
  IF listeners = <<>> THEN w
  ELSE dispatchFocusin(handleFocusOut(w, Head(listeners), target, depth),
                       target, Tail(listeners), depth)

\* element.focus(): throws for a hostile object or an exhausted stack, does
\* nothing for an element the browser cannot focus or that has focus already,
\* and otherwise moves the active element and dispatches focusin synchronously
focus(w, e, depth) ==
  IF e \in throwsOn \/ depth >= w.budget
  THEN [Logged(w, "focus", 0, e) EXCEPT !.threw = TRUE]
  ELSE IF ~browserFocusable(w.dom, e) \/ w.active = e
  THEN Logged(w, "focus", 0, e)
  ELSE [dispatchFocusin([Logged(w, "focus", 0, e) EXCEPT !.active = e], e,
                        focusinListeners, depth + 1)
          EXCEPT !.threw = FALSE]

(***************************************************************************)
(* Focus-state keeper (returnFocus.ts).  A slot is the default slot or a   *)
(* manager's private slot; the two implementations are modelled apart.     *)
(***************************************************************************)
\* document.body, the default fallbackElement
DefaultFallback == N.body

\* saveFocus(): the new slot content (also the return value)
saveFocus(a) == a

\* Result of a keeper call: the slot's new content and the world after it.
\* w.threw tells that the call ended by an exception that escaped it.
Outcome(slot, w) == [slot |-> slot, w |-> w]

\* the end of returnFocus: "savedFocusElement = null; return null"
returnFocusEnd(w) == Outcome(Null, [w EXCEPT !.threw = FALSE, !.ret = Null])

\* the catch block of returnFocus, after its fallbackElement.focus()
returnFocusCaught(r, saved, fallbackElement) ==
  IF ~r.threw
  THEN Outcome(saved, [r EXCEPT !.ret = fallbackElement])
  ELSE returnFocusEnd(Logged(r, "console.error", 0, fallbackElement))

\* a catch block that logs the error and gives up without trying the fallback
returnFocusCatchGivingUp(w, saved, fallbackElement) ==
  returnFocusEnd(Logged([w EXCEPT !.threw = FALSE], "console.error", 0, saved))

\* the catch block of returnFocus
returnFocusCatch(w, saved, fallbackElement) ==
  IF fallbackElement # Null
  THEN returnFocusCaught(
         focus(Logged([w EXCEPT !.threw = FALSE], "console.error", 0, saved),
               fallbackElement, 0),
         saved, fallbackElement)
  ELSE returnFocusEnd(Logged([w EXCEPT !.threw = FALSE], "console.error", 0, saved))

\* the try block of returnFocus, after its fallbackElement.focus()
returnFocusFallback(r, saved, fallbackElement) ==
  IF r.threw THEN returnFocusCatch(r, saved, fallbackElement)
  ELSE Outcome(saved, [r EXCEPT !.ret = fallbackElement])

\* a try block that returns the focused element without emptying the slot
returnFocusTriedKeepingSlot(r, saved, fallbackElement) ==
  IF r.threw THEN returnFocusCatch(r, saved, fallbackElement)
  ELSE IF r.active = saved THEN Outcome(saved, [r EXCEPT !.ret = saved])
  ELSE IF fallbackElement # Null
  THEN returnFocusFallback(focus(r, fallbackElement, 0), saved, fallbackElement)
  ELSE returnFocusEnd(r)

\* the try block of returnFocus, after savedFocusElement.focus()
returnFocusTried(r, saved, fallbackElement) ==
  IF r.threw THEN returnFocusCatch(r, saved, fallbackElement)
  ELSE IF r.active = saved THEN Outcome(Null, [r EXCEPT !.ret = saved])
  ELSE IF fallbackElement # Null
  THEN returnFocusFallback(focus(r, fallbackElement, 0), saved, fallbackElement)
  ELSE returnFocusEnd(r)

\* returnFocus(options) on the default slot holding `saved`
returnFocus(w, saved, fallbackElement) ==
  IF saved = Null
  THEN IF fallbackElement = Null
       THEN Outcome(saved, [Logged(w, "returnFocus", 0, saved) EXCEPT !.ret = Null])
       ELSE Outcome(saved, [focus(Logged(w, "returnFocus", 0, saved), fallbackElement, 0)
                              EXCEPT !.ret = fallbackElement])
  ELSE returnFocusTried(focus(Logged(w, "returnFocus", 0, saved), saved, 0),
                        saved, fallbackElement)

(***************************************************************************)
(* createFocusManager: the scoped pair, written out a second time in the   *)
(* source, over the closure's own slot.                                    *)
(***************************************************************************)
managerSaveFocus(a) == a

managerReturnFocusEnd(w) == Outcome(Null, [w EXCEPT !.threw = FALSE, !.ret = Null])

managerReturnFocusCaught(r, saved, fallbackElement) ==
  IF ~r.threw
  THEN Outcome(saved, [r EXCEPT !.ret = fallbackElement])
  ELSE managerReturnFocusEnd(Logged(r, "console.error", 0, fallbackElement))

managerReturnFocusCatch(w, saved, fallbackElement) ==
  IF fallbackElement # Null
  THEN managerReturnFocusCaught(
         focus(Logged([w EXCEPT !.threw = FALSE], "console.error", 0, saved),
               fallbackElement, 0),
         saved, fallbackElement)
  ELSE managerReturnFocusEnd(Logged([w EXCEPT !.threw = FALSE], "console.error", 0, saved))

managerReturnFocusFallback(r, saved, fallbackElement) ==
  IF r.threw THEN managerReturnFocusCatch(r, saved, fallbackElement)
  ELSE Outcome(saved, [r EXCEPT !.ret = fallbackElement])

\* a manager that takes the focus attempt for a success without re-reading
\* the active element
managerReturnFocusTriedUnverified(r, saved, fallbackElement) ==
  IF r.threw THEN managerReturnFocusCatch(r, saved, fallbackElement)
  ELSE Outcome(Null, [r EXCEPT !.ret = saved])

managerReturnFocusTried(r, saved, fallbackElement) ==
  IF r.threw THEN managerReturnFocusCatch(r, saved, fallbackElement)
  ELSE IF r.active = saved THEN Outcome(Null, [r EXCEPT !.ret = saved])
  ELSE IF fallbackElement # Null
  THEN managerReturnFocusFallback(focus(r, fallbackElement, 0), saved, fallbackElement)
  ELSE managerReturnFocusEnd(r)

managerReturnFocus(w, saved, fallbackElement) ==
  IF saved = Null
  THEN IF fallbackElement = Null
       THEN Outcome(saved, [Logged(w, "returnFocus", 0, saved) EXCEPT !.ret = Null])
       ELSE Outcome(saved, [focus(Logged(w, "returnFocus", 0, saved), fallbackElement, 0)
                              EXCEPT !.ret = fallbackElement])
  ELSE managerReturnFocusTried(focus(Logged(w, "returnFocus", 0, saved), saved, 0),
                               saved, fallbackElement)

(***************************************************************************)
(* Trap controller (useFocusTrap.ts).                                      *)
(***************************************************************************)
PropsType ==
  [active : BOOLEAN, autoFocus : BOOLEAN, restoreFocus : BOOLEAN,
   lockFocus : BOOLEAN, returnFocusOnDeactivate : BOOLEAN,
   onEscapeKey : Callbacks, onFocusRestore : Callbacks]

\* the defaults of the destructured options
DefaultProps ==
  [active |-> TRUE, autoFocus |-> TRUE, restoreFocus |-> TRUE,
   lockFocus |-> TRUE, returnFocusOnDeactivate |-> TRUE,
   onEscapeKey |-> Undefined, onFocusRestore |-> Undefined]

NoCleanups ==
  [keydown |-> NoCleanup, timer |-> FALSE, focusin |-> FALSE, restore |-> NoCleanup]

\* seq without the first occurrence of x
RECURSIVE RemoveOne(_, _)
RemoveOne(seq, x) ==
  IF seq = <<>> THEN <<>>
  ELSE IF Head(seq) = x THEN Tail(seq)
  ELSE <<Head(seq)>> \o RemoveOne(Tail(seq), x)

\* a key listener that was registered without the Escape callback
KeyListenerWithoutCallback(s, cb) == [session |-> s, onEscapeKey |-> Undefined]

KeyListener(s, cb) == [session |-> s, onEscapeKey |-> cb]
RestoreTask(s, cb) == [session |-> s, onFocusRestore |-> cb]

\* the dependency arrays of the four effects
keydownDeps(p) == <<p.active, p.onEscapeKey>>
autoFocusDeps(p) == <<p.active, p.autoFocus, p.restoreFocus>>
focusinDeps(p) == <<p.active, p.lockFocus>>
restoreDeps(p) == <<p.returnFocusOnDeactivate, p.onFocusRestore>>

\* a key listener that serves Escape only and leaves Tab to the browser
handleKeyDownEscapeOnly(w, l, key, shiftKey) ==
  IF containerRef[l.session] # Null /\ key = "Escape" /\ l.onEscapeKey # Undefined
  THEN Logged(w, "onEscapeKey", l.session, Null)
  ELSE w

\* event.preventDefault() in the key listener of session s
preventDefault(w, s) ==
  Logged([w EXCEPT !.prevented = TRUE], "preventDefault", s, Null)

\* a Tab branch that prevents the default of every Tab press
handleTabAlwaysPreventing(w, s, container, shiftKey, tabbableElements) ==
  preventDefault(w, s)

\* the Tab branch of the key listener, from the enumeration on
handleTab(w, s, container, shiftKey, tabbableElements) ==
  IF Len(tabbableElements) = 0
  THEN focus(preventDefault(w, s), container, 0)
  ELSE
    LET firstElement == tabbableElements[1]
        lastElement == tabbableElements[Len(tabbableElements)]
    IN IF shiftKey
       THEN IF w.active = firstElement
            THEN focus(preventDefault(w, s), lastElement, 0)
            ELSE w
       ELSE IF w.active = lastElement
            THEN focus(preventDefault(w, s), firstElement, 0)
            ELSE w

\* the keydown listener of one session
handleKeyDown(w, l, key, shiftKey) ==
  IF containerRef[l.session] = Null THEN w
  ELSE IF key = "Escape" /\ l.onEscapeKey # Undefined
  THEN Logged(w, "onEscapeKey", l.session, Null)
  ELSE IF key # "Tab" THEN w
  ELSE handleTab(w, l.session, containerRef[l.session], shiftKey,
                 getFocusableElements(w.dom, containerRef[l.session], TRUE, TRUE))

\* an exception that escapes a listener or a callback is reported by the
\* event loop and the turn goes on
Reported(w) ==
  IF w.threw THEN Logged([w EXCEPT !.threw = FALSE], "uncaught", 0, Null) ELSE w

RECURSIVE dispatchKeydown(_, _, _, _)
dispatchKeydown(w, listeners, key, shiftKey) ==
  IF listeners = <<>> THEN w
  ELSE dispatchKeydown(Reported(handleKeyDown(w, Head(listeners), key, shiftKey)),
                       Tail(listeners), key, shiftKey)

\* a timeout callback that only warns when nothing was focused
focusContainerWarningOnly(w, s, container) == Logged(w, "console.warn", s, Null)

\* the timeout's callback when nothing was focused: warn, make the container
\* focusable, focus it
focusContainer(w, s, container) ==
  IF w.dom[container].tabindex = NoAttr
  THEN focus(Logged([Logged(w, "console.warn", s, Null)
                       EXCEPT !.dom[container].tabindex = "-1"],
                    "setAttribute", s, container),
             container, 0)
  ELSE focus(Logged(w, "console.warn", s, Null), container, 0)

\* the timeout's callback after focusFirstElement returned
autoFocused(r, s, container) ==
  IF r.ret = Null THEN focusContainer(r, s, container) ELSE r

\* the callback of the auto-focus timeout of session s
autoFocusCallback(w, s) ==
  IF containerRef[s] = Null THEN w
  ELSE autoFocused(focusFirstElement(Logged(w, "focusFirstElement", s, containerRef[s]),
                                     containerRef[s], TRUE, TRUE, 0),
                   s, containerRef[s])

\* The part of the state the effects of one session read and write.
HookState(s) ==
  [keydownListeners |-> keydownListeners, focusinListeners |-> focusinListeners,
   timers |-> timers, microtasks |-> microtasks, cleanup |-> cleanup[s],
   hasSavedFocus |-> hasSavedFocus[s], savedFocusElement |-> savedFocusElement,
   log |-> <<>>]

\* effect 1 (keydown): its body and its cleanup
keydownEffect(h, s, p, container) ==
  IF ~p.active \/ container = Null THEN h
  ELSE [h EXCEPT !.keydownListeners = Append(@, KeyListener(s, p.onEscapeKey)),
                 !.cleanup.keydown = p.onEscapeKey]

\* a cleanup of effect 1 that leaves the listener registered
keydownCleanupKeeping(h, s) == [h EXCEPT !.cleanup.keydown = NoCleanup]

keydownCleanup(h, s) ==
  IF h.cleanup.keydown = NoCleanup THEN h
  ELSE [h EXCEPT !.keydownListeners = RemoveOne(@, KeyListener(s, h.cleanup.keydown)),
                 !.cleanup.keydown = NoCleanup]

\* an effect 2 that schedules the auto-focus and saves nothing
autoFocusEffectWithoutSave(h, s, p, container, a) ==
  IF ~p.active \/ container = Null \/ ~p.autoFocus THEN h
  ELSE [h EXCEPT !.timers = Append(@, s), !.cleanup.timer = TRUE]

\* effect 2 (save focus, schedule the auto-focus): its body and its cleanup
autoFocusEffect(h, s, p, container, a) ==
  IF ~p.active \/ container = Null THEN h
  ELSE
    LET h1 == IF p.restoreFocus /\ ~h.hasSavedFocus
              THEN [h EXCEPT !.savedFocusElement = saveFocus(a),
                             !.hasSavedFocus = TRUE,
                             !.log = Append(@, Call("saveFocus", s, a))]
              ELSE h
    IN IF p.autoFocus
       THEN [h1 EXCEPT !.timers = Append(@, s), !.cleanup.timer = TRUE]
       ELSE h1

\* a cleanup of effect 2 that does not clear the timeout
autoFocusCleanupKeeping(h, s) == [h EXCEPT !.cleanup.timer = FALSE]

autoFocusCleanup(h, s) ==
  IF ~h.cleanup.timer THEN h
  ELSE [h EXCEPT !.timers = RemoveOne(@, s), !.cleanup.timer = FALSE]

\* effect 3 (focusin): its body and its cleanup
focusinEffect(h, s, p, container) ==
  IF ~p.active \/ ~p.lockFocus \/ container = Null THEN h
  ELSE [h EXCEPT !.focusinListeners = Append(@, s), !.cleanup.focusin = TRUE]

\* a cleanup of effect 3 that leaves the listener registered
focusinCleanupKeeping(h, s) == [h EXCEPT !.cleanup.focusin = FALSE]

focusinCleanup(h, s) ==
  IF ~h.cleanup.focusin THEN h
  ELSE [h EXCEPT !.focusinListeners = RemoveOne(@, s), !.cleanup.focusin = FALSE]

\* effect 4 (return focus): its body only registers the cleanup, which defers
\* the restore to a microtask
restoreEffect(h, s, p) ==
  IF ~p.returnFocusOnDeactivate THEN h
  ELSE [h EXCEPT !.cleanup.restore = p.onFocusRestore]

\* a cleanup of effect 4 that defers the restore whether or not focus was saved
restoreCleanupUnguarded(h, s) ==
  IF h.cleanup.restore = NoCleanup THEN h
  ELSE [h EXCEPT !.cleanup.restore = NoCleanup,
                 !.microtasks = Append(@, RestoreTask(s, h.cleanup.restore))]

restoreCleanup(h, s) ==
  IF h.cleanup.restore = NoCleanup THEN h
  ELSE LET h1 == [h EXCEPT !.cleanup.restore = NoCleanup]
       IN IF h.hasSavedFocus
          THEN [h1 EXCEPT !.microtasks = Append(@, RestoreTask(s, h.cleanup.restore))]
          ELSE h1

\* React's commit of one render of session s: the cleanups of the effects whose
\* dependencies changed (all of them on unmount) run first, in order, then the
\* bodies of those effects (none on unmount)
commitEffects(h, s, old, p, container, a, isMount, isUnmount) ==
  LET run1 == isMount \/ isUnmount \/ keydownDeps(old) # keydownDeps(p)
      run2 == isMount \/ isUnmount \/ autoFocusDeps(old) # autoFocusDeps(p)
      run3 == isMount \/ isUnmount \/ focusinDeps(old) # focusinDeps(p)
      run4 == isMount \/ isUnmount \/ restoreDeps(old) # restoreDeps(p)
      c1 == IF run1 THEN keydownCleanup(h, s) ELSE h
      c2 == IF run2 THEN autoFocusCleanup(c1, s) ELSE c1
      c3 == IF run3 THEN focusinCleanup(c2, s) ELSE c2
      c4 == IF run4 THEN restoreCleanup(c3, s) ELSE c3
      e1 == IF run1 /\ ~isUnmount THEN keydownEffect(c4, s, p, container) ELSE c4
      e2 == IF run2 /\ ~isUnmount THEN autoFocusEffect(e1, s, p, container, a) ELSE e1
      e3 == IF run3 /\ ~isUnmount THEN focusinEffect(e2, s, p, container) ELSE e2
      e4 == IF run4 /\ ~isUnmount THEN restoreEffect(e3, s, p) ELSE e3
  IN e4

\* where the container of session s sits when the host renders it
Home(s) == IF s = 2 /\ layout = "nested" THEN N.c1 ELSE N.body

Install(h, s) ==
  /\ keydownListeners' = h.keydownListeners
  /\ focusinListeners' = h.focusinListeners
  /\ timers' = h.timers
  /\ microtasks' = h.microtasks
  /\ cleanup' = [cleanup EXCEPT ![s] = h.cleanup]
  /\ hasSavedFocus' = [hasSavedFocus EXCEPT ![s] = h.hasSavedFocus]
  /\ savedFocusElement' = h.savedFocusElement
  /\ log' = h.log

\* The host mounts or re-renders the component of session s with options p,
\* rendering the container (and attaching the ref) or not.
Render(s, p, attach) ==
  /\ microtasks = <<>>
  /\ ~mounted[s] \/ p # props[s] \/ attach # (containerRef[s] # Null)
  /\ LET container == IF attach THEN Container(s) ELSE Null
         d == [dom EXCEPT ![Container(s)].parent = IF attach THEN Home(s) ELSE Null]
         a == fixup(d, activeElement)
         h0 == IF mounted[s] THEN HookState(s)
               ELSE [HookState(s) EXCEPT !.hasSavedFocus = FALSE, !.cleanup = NoCleanups]
         h == commitEffects(h0, s, props[s], p, container, a, ~mounted[s], FALSE)
     IN /\ dom' = d
        /\ activeElement' = a
        /\ containerRef' = [containerRef EXCEPT ![s] = container]
        /\ Install(h, s)
  /\ mounted' = [mounted EXCEPT ![s] = TRUE]
  /\ props' = [props EXCEPT ![s] = p]
  /\ UNCHANGED <<throwsOn, inert, layout, savedElement>>

\* The host unmounts the component of session s.
Unmount(s) ==
  /\ microtasks = <<>>
  /\ mounted[s]
  /\ LET d == [dom EXCEPT ![Container(s)].parent = Null]
         a == fixup(d, activeElement)
         h == commitEffects(HookState(s), s, props[s], props[s], Null, a, FALSE, TRUE)
     IN /\ dom' = d
        /\ activeElement' = a
        /\ Install(h, s)
  /\ containerRef' = [containerRef EXCEPT ![s] = Null]
  /\ mounted' = [mounted EXCEPT ![s] = FALSE]
  /\ props' = [props EXCEPT ![s] = DefaultProps]
  /\ UNCHANGED <<throwsOn, inert, layout, savedElement>>

\* the deferred restore after returnFocus() returned: clear the guard, call back
restored(w, t) ==
  IF t.onFocusRestore # Undefined
  THEN Logged(Logged(w, "clearGuard", t.session, Null), "onFocusRestore", t.session, Null)
  ELSE Logged(w, "clearGuard", t.session, Null)

restoreTaskAfter(r, t) ==
  IF r.w.threw
  THEN [slot |-> r.slot, cleared |-> FALSE, w |-> Reported(r.w)]
  ELSE [slot |-> r.slot, cleared |-> TRUE, w |-> restored(r.w, t)]

\* The deferred restore scheduled by the cleanup of effect 4.
restoreTask(w, saved, t) == restoreTaskAfter(returnFocus(w, saved, DefaultFallback), t)

\* The stack left when a turn starts is not known to the program: nested
\* dispatch may run out one level sooner or later.  With at most one focusin
\* listener the nesting is at most two deep and the stack never runs out.
Budgets ==
  IF Len(focusinListeners) > 1 THEN {MaxDispatch - 1, MaxDispatch} ELSE {MaxDispatch}

\* the turn ends: where the focus is, and the calls it made
Settles(w) ==
  /\ activeElement' = w.active
  /\ log' = w.log

RestoreRan(r, t) ==
  /\ savedFocusElement' = r.slot
  /\ hasSavedFocus' = IF r.cleared
                      THEN [hasSavedFocus EXCEPT ![t.session] = FALSE]
                      ELSE hasSavedFocus
  /\ Settles(r.w)

RunMicrotask ==
  /\ microtasks # <<>>
  /\ \E budget \in Budgets :
       RestoreRan(restoreTask(World(dom, activeElement, budget), savedFocusElement,
                              Head(microtasks)),
                  Head(microtasks))
  /\ microtasks' = Tail(microtasks)
  /\ UNCHANGED <<domVars, savedElement, mounted, props, containerRef, cleanup,
                 keydownListeners, focusinListeners, timers>>

TimerRan(w) ==
  /\ dom' = w.dom
  /\ Settles(w)

\* The auto-focus timeout of session s fires.
TimerFires(s) ==
  /\ microtasks = <<>>
  /\ \E i \in 1..Len(timers) : timers[i] = s
  /\ \E budget \in Budgets :
       TimerRan(Reported(autoFocusCallback(World(dom, activeElement, budget), s)))
  /\ timers' = RemoveOne(timers, s)
  /\ UNCHANGED <<throwsOn, inert, layout, keeperVars, mounted, props, containerRef,
                 hasSavedFocus, cleanup, keydownListeners, focusinListeners, microtasks>>

(***************************************************************************)
(* The user and the page (external).                                       *)
(***************************************************************************)
Keys == {"Tab", "Escape", "Enter"}

\* the browser's sequential navigation order: positive tab indices ascending,
\* then document order
nativeTabIndex(d, e) ==
  IF d[e].tabindex = NoAttr \/ parseInt(d[e].tabindex).nan THEN 0
  ELSE parseInt(d[e].tabindex).n

MaxTabIndex ==
  LET values == {parseInt(v).n : v \in TabIndexValues}
  IN CHOOSE m \in values : \A k \in values : k <= m

RECURSIVE nativeOrderFrom(_, _)
nativeOrderFrom(d, k) ==
  IF k > MaxTabIndex
  THEN SelectSeq(DocumentOrder(d),
                 LAMBDA e : browserFocusable(d, e) /\ nativeTabIndex(d, e) = 0)
  ELSE SelectSeq(DocumentOrder(d),
                 LAMBDA e : browserFocusable(d, e) /\ nativeTabIndex(d, e) = k)
       \o nativeOrderFrom(d, k + 1)

nativeOrder(d) == nativeOrderFrom(d, 1)

\* where Tab (or Shift+Tab) takes the focus from a, in the navigation order
\* given; Null: out of the document
nativeTabTargetIn(order, d, a, shiftKey) ==
  LET at == {i \in 1..Len(order) : order[i] = a}
      after == {i \in 1..Len(order) : order[i] > a}
      before == {i \in 1..Len(order) : order[i] < a /\ ~contains(d, order[i], a)}
      pick(I, least) ==
        IF I = {} THEN Null
        ELSE order[CHOOSE i \in I : \A j \in I : IF least THEN i <= j ELSE i >= j]
  IN IF at # {}
     THEN LET i == CHOOSE i \in at : TRUE
          IN IF shiftKey THEN (IF i > 1 THEN order[i - 1] ELSE Null)
             ELSE (IF i < Len(order) THEN order[i + 1] ELSE Null)
     ELSE IF shiftKey THEN pick(before, FALSE) ELSE pick(after, TRUE)

nativeTabTarget(d, a, shiftKey) == nativeTabTargetIn(nativeOrder(d), d, a, shiftKey)

nativeTabTo(w, target, leave) ==
  IF target = Null
  THEN IF leave THEN [w EXCEPT !.active = N.body] ELSE w
  ELSE focus(w, target, 0)

nativeTab(w, shiftKey, leave) ==
  nativeTabTo(w, nativeTabTarget(w.dom, w.active, shiftKey), leave)

\* the browser's default action for the key, unless a listener prevented it
defaultAction(w, key, shiftKey, leave) ==
  IF key = "Tab" /\ ~w.prevented
  THEN Reported(nativeTab(w, shiftKey, leave))
  ELSE w

\* whether Tab may take the focus out of the document (to the browser's own
\* controls): only where the navigation order ends
Leaves(w, key, shiftKey) ==
  IF key = "Tab" /\ ~w.prevented /\ nativeTabTarget(w.dom, w.active, shiftKey) = Null
  THEN BOOLEAN
  ELSE {FALSE}

KeyDispatched(w, key, shiftKey) ==
  \E leave \in Leaves(w, key, shiftKey) : Settles(defaultAction(w, key, shiftKey, leave))

\* The user presses a key: the document's keydown listeners run, then the
\* browser's default action unless it was prevented.
KeyDown(key, shiftKey) ==
  /\ microtasks = <<>>
  /\ \E budget \in Budgets :
       KeyDispatched(dispatchKeydown(World(dom, activeElement, budget),
                                     keydownListeners, key, shiftKey),
                     key, shiftKey)
  /\ UNCHANGED <<domVars, keeperVars, hookVars>>

\* The user moves focus with the pointer: to a focusable element (focusin is
\* dispatched), or to nothing (the body becomes the active element, no focusin).
UserFocus(e) ==
  /\ microtasks = <<>>
  /\ e # activeElement
  /\ e = N.body \/ browserFocusable(dom, e)
  /\ \E budget \in Budgets :
       Settles(IF e = N.body
               THEN [World(dom, activeElement, budget) EXCEPT !.active = e]
               ELSE Reported(focus(World(dom, activeElement, budget), e, 0)))
  /\ UNCHANGED <<domVars, keeperVars, hookVars>>

\* The page enables or disables a control; a browser may or may not move the
\* focus off a control that has it.
ToggleDisabled(e) ==
  /\ microtasks = <<>>
  /\ isConnected(dom, e)
  /\ dom' = [dom EXCEPT ![e].disabled = ~@]
  /\ activeElement' \in {activeElement, fixup(dom', activeElement)}
  /\ log' = <<>>
  /\ UNCHANGED <<throwsOn, inert, layout, keeperVars, hookVars>>

(***************************************************************************)
(* Specification of one trap session on the page.                          *)
(***************************************************************************)
\* the page before any overlay is rendered
ClosedDom ==
  [n \in Nodes |-> IF n \in Containers
                   THEN [PageDom[n] EXCEPT !.parent = Null]
                   ELSE PageDom[n]]

InitPage ==
  /\ activeElement = N.body
  /\ throwsOn = {}
  /\ inert = {}
  /\ savedFocusElement = Null
  /\ savedElement = [m \in Managers |-> Null]
  /\ mounted = [s \in Sessions |-> FALSE]
  /\ props = [s \in Sessions |-> DefaultProps]
  /\ containerRef = [s \in Sessions |-> Null]
  /\ hasSavedFocus = [s \in Sessions |-> FALSE]
  /\ cleanup = [s \in Sessions |-> NoCleanups]
  /\ keydownListeners = <<>>
  /\ focusinListeners = <<>>
  /\ timers = <<>>
  /\ microtasks = <<>>
  /\ log = <<>>

\* the page of one overlay: the nodes up to the last button of the first
\* container
OneOverlay == (N.body)..(N.last1)

Init ==
  /\ InitPage
  /\ dom = [n \in OneOverlay |-> ClosedDom[n]]
  /\ layout = "sibling"

\* A re-render changes at most one option (together with rendering the
\* container or not); a mount may start from any options.
BooleanOptions ==
  {"active", "autoFocus", "restoreFocus", "lockFocus", "returnFocusOnDeactivate"}
CallbackOptions == {"onEscapeKey", "onFocusRestore"}

Changes(old, options) ==
  {[old EXCEPT ![f] = ~@] : f \in options \cap BooleanOptions}
    \cup {[old EXCEPT ![f] = c] : f \in options \cap CallbackOptions, c \in Callbacks}
    \cup {old}

Renders(s, options) ==
  \E p \in IF mounted[s] THEN Changes(props[s], options)
           ELSE {q \in PropsType :
                   \A f \in DOMAIN q : f \notin options => q[f] = DefaultProps[f]},
     attach \in BOOLEAN : Render(s, p, attach)

\* the options a host of the trap varies while the user works in the overlay
TrapOptions == {"active", "lockFocus", "onEscapeKey"}

Next ==
  \/ Renders(1, TrapOptions)
  \/ Unmount(1)
  \/ RunMicrotask
  \/ TimerFires(1)
  \/ \E key \in Keys, shiftKey \in BOOLEAN : KeyDown(key, shiftKey)
  \/ \E e \in {N.body, N.opener} \cup Children1 : UserFocus(e)
  \/ \E e \in Children1 : ToggleDisabled(e)

Spec == Init /\ [][Next]_vars

(***************************************************************************)
(* Specification of the keyboard handling of one trap session: the host    *)
(* mounts and unmounts the overlay and switches lockFocus, the user        *)
(* presses keys and moves the focus, the page disables buttons.            *)
(***************************************************************************)
NextKeyboard ==
  \/ Renders(1, {"lockFocus"})
  \/ Unmount(1)
  \/ RunMicrotask
  \/ TimerFires(1)
  \/ \E key \in Keys, shiftKey \in BOOLEAN : KeyDown(key, shiftKey)
  \/ \E e \in {N.body, N.opener} \cup Children1 : UserFocus(e)
  \/ \E e \in Children1 : ToggleDisabled(e)

SpecKeyboard == Init /\ [][NextKeyboard]_vars

(***************************************************************************)
(* Specification of the life cycle of one trap session: every option may   *)
(* change between renders; the page itself does not change.                *)
(***************************************************************************)
NextLifecycle ==
  \/ Renders(1, BooleanOptions \cup CallbackOptions)
  \/ Unmount(1)
  \/ RunMicrotask
  \/ TimerFires(1)
  \/ \E e \in {N.body, N.opener, N.first1} : UserFocus(e)

SpecLifecycle == Init /\ [][NextLifecycle]_vars

(***************************************************************************)
(* Specification of the documented host, a modal component that passes     *)
(* `active: isOpen` and renders the container only while open              *)
(* (`if (!isOpen) return null`): every option may change between renders,  *)
(* the container is bound exactly while `active` is true.                  *)
(***************************************************************************)
RendersModal(s) ==
  \E p \in IF mounted[s] THEN Changes(props[s], BooleanOptions \cup CallbackOptions)
           ELSE PropsType :
    Render(s, p, p.active)

NextModal ==
  \/ RendersModal(1)
  \/ Unmount(1)
  \/ RunMicrotask
  \/ TimerFires(1)
  \/ \E e \in {N.body, N.opener, N.first1} : UserFocus(e)

SpecModal == Init /\ [][NextModal]_vars

(***************************************************************************)
(* Specification of the focus-state keeper used directly: a page script    *)
(* calls the default saveFocus/returnFocus and those of two managers,      *)
(* while the user moves the focus and the page changes its controls.       *)
(***************************************************************************)
\* all managers writing one slot, as a module-level variable would make them
managerSlotsShared(slots, m, v) == [k \in DOMAIN slots |-> v]

\* createFocusManager(): each call closes over a savedElement of its own
managerSlots(slots, m, v) == [slots EXCEPT ![m] = v]

\* options.fallbackElement: null, left out (document.body), or an element
FallbackOptions == {Null, DefaultFallback, N.opener}
KeeperElements == {N.body, N.opener, N.first1, N.last1}
Hostile == {N.opener, N.first1}

\* how a call ended: the value it returned, or the exception that escaped it
Returned(w) == IF w.threw THEN Call("throw", 0, Null) ELSE Call("return", 0, w.ret)

SaveFocus ==
  /\ savedFocusElement' = saveFocus(activeElement)
  /\ log' = <<Call("saveFocus", 0, activeElement),
              Call("return", 0, saveFocus(activeElement))>>
  /\ UNCHANGED <<domVars, activeElement, savedElement, hookVars>>

ReturnFocusRan(r) ==
  /\ savedFocusElement' = r.slot
  /\ activeElement' = r.w.active
  /\ log' = Append(r.w.log, Returned(r.w))

ReturnFocus(fallbackElement) ==
  /\ ReturnFocusRan(returnFocus(World(dom, activeElement, MaxDispatch),
                                savedFocusElement, fallbackElement))
  /\ UNCHANGED <<domVars, savedElement, hookVars>>

ManagerSaveFocus(m) ==
  /\ savedElement' = managerSlots(savedElement, m, managerSaveFocus(activeElement))
  /\ log' = <<Call("manager.saveFocus", m, activeElement),
              Call("return", 0, managerSaveFocus(activeElement))>>
  /\ UNCHANGED <<domVars, activeElement, savedFocusElement, hookVars>>

ManagerReturnFocusRan(m, r) ==
  /\ savedElement' = managerSlots(savedElement, m, r.slot)
  /\ activeElement' = r.w.active
  /\ log' = <<Call("manager.returnFocus", m, Null)>> \o Append(r.w.log, Returned(r.w))

ManagerReturnFocus(m, fallbackElement) ==
  /\ ManagerReturnFocusRan(m, managerReturnFocus(World(dom, activeElement, MaxDispatch),
                                                 savedElement[m], fallbackElement))
  /\ UNCHANGED <<domVars, savedFocusElement, hookVars>>

\* an element's focus method starts or stops throwing (a patched or foreign object)
ToggleThrows(e) ==
  /\ throwsOn' = IF e \in throwsOn THEN throwsOn \ {e} ELSE throwsOn \cup {e}
  /\ log' = <<>>
  /\ UNCHANGED <<dom, inert, layout, activeElement, keeperVars, hookVars>>

\* the first overlay is part of the page; no trap session is mounted
InitKeeper ==
  /\ InitPage
  /\ dom = [n \in OneOverlay |-> IF n = N.c1 THEN PageDom[n] ELSE ClosedDom[n]]
  /\ layout = "sibling"

NextKeeper ==
  \/ SaveFocus
  \/ \E fallbackElement \in FallbackOptions : ReturnFocus(fallbackElement)
  \/ \E m \in Managers : ManagerSaveFocus(m)
  \/ \E m \in Managers, fallbackElement \in FallbackOptions :
       ManagerReturnFocus(m, fallbackElement)
  \/ \E e \in KeeperElements : UserFocus(e)
  \/ \E e \in Hostile : ToggleDisabled(e)
  \/ \E e \in Hostile : ToggleThrows(e)

SpecKeeper == InitKeeper /\ [][NextKeeper]_vars

(***************************************************************************)
(* Specification of one trap session over a container whose focus method   *)
(* may throw (a patched or foreign object), while the host opens and       *)
(* closes the overlay and the user presses keys and disables buttons.      *)
(***************************************************************************)
NextHostile ==
  \/ Renders(1, {"active"})
  \/ Unmount(1)
  \/ RunMicrotask
  \/ TimerFires(1)
  \/ \E key \in Keys, shiftKey \in BOOLEAN : KeyDown(key, shiftKey)
  \/ \E e \in {N.body, N.opener} \cup Children1 : UserFocus(e)
  \/ \E e \in Children1 : ToggleDisabled(e)
  \/ ToggleThrows(N.c1)

SpecHostile == Init /\ [][NextHostile]_vars

(***************************************************************************)
(* Specification of two coexisting trap sessions: the second overlay is    *)
(* rendered beside the first or inside it, and each host opens, closes and *)
(* unmounts its overlay.                                                   *)
(***************************************************************************)
InitNested ==
  /\ InitPage
  /\ dom = ClosedDom
  /\ layout \in {"sibling", "nested"}

NextNested ==
  \/ \E s \in Sessions : Renders(s, {"active"})
  \/ \E s \in Sessions : Unmount(s)
  \/ RunMicrotask
  \/ \E s \in Sessions : TimerFires(s)
  \/ UserFocus(N.opener)

SpecNested == InitNested /\ [][NextNested]_vars

(***************************************************************************)
(* Specification of the classifier and the enumerator used directly: a     *)
(* page script queries isFocusable, isTabbable and getFocusableElements on *)
(* a page that does not change.  The pages are those of the unit tests: a  *)
(* container inside a section, holding a shadow host and some items.       *)
(***************************************************************************)
\* items inside the container of the queried page
NumItems == 3

Fx == [body      |-> 0,
       section   |-> 1,
       container |-> 2,
       host      |-> 3,
       root      |-> 4,
       inner     |-> 5,
       firstItem |-> 6,
       lastItem  |-> 5 + NumItems]

FxNodes == (Fx.body)..(Fx.lastItem)
Items == (Fx.firstItem)..(Fx.lastItem)

\* the page with plain buttons for items and for the element in the shadow tree
PlainPage ==
  [n \in FxNodes |->
     IF n = Fx.body THEN Element("body", Null)
     ELSE IF n = Fx.section THEN Element("div", Fx.body)
     ELSE IF n = Fx.container THEN Element("div", Fx.section)
     ELSE IF n = Fx.host THEN Element("div", Fx.container)
     ELSE IF n = Fx.root
     THEN [Element("", Null) EXCEPT !.kind = "shadow", !.host = Fx.host, !.mode = "open"]
     ELSE IF n = Fx.inner THEN Element("button", Fx.root)
     ELSE Element("button", Fx.container)]

Tags == {"a", "area", "input", "button", "select", "textarea", "summary",
         "audio", "video", "details", "div"}
MarkerNames == {"hidden", "displayNone", "visibilityHidden", "ariaHidden"}

\* an element of the tag given, carrying (or not) the attribute its tag reads:
\* href, type="hidden", controls, open
Tagged(tag, attr, parent) ==
  [Element(tag, parent) EXCEPT !.href = attr /\ tag \in {"a", "area"},
                               !.typeHidden = attr /\ tag = "input",
                               !.controls = attr /\ tag \in {"audio", "video"},
                               !.open = attr /\ tag = "details"]

\* the page with marker m set on node n (no marker for n = Null)
Marked(d, n, m) == IF n = Null THEN d ELSE [d EXCEPT ![n][m] = TRUE]

\* Pages for the classifier: the first item is an element of any kind with any
\* of these tabindex attributes, editable or not, disabled or not; either the
\* section is detached, or at most one hiding marker sits on the item, on the
\* container or on the section.
ClassifierTabIndexes == {NoAttr, "-1", "0", "1", "-2", "", "abc", "2px"}
Settings ==
  ({Fx.section, Fx.container, Fx.firstItem} \X MarkerNames)
    \cup {<<Null, "">>, <<Fx.section, "detached">>}

Arranged(d, n, m) ==
  IF n = Null THEN d
  ELSE IF m = "detached" THEN [d EXCEPT ![n].parent = Null]
  ELSE Marked(d, n, m)

ClassifierPages ==
  {Arranged([PlainPage EXCEPT
               ![Fx.firstItem] = [Tagged(tag, attr, Fx.container)
                                    EXCEPT !.tabindex = tabindex,
                                           !.contentEditable = editable,
                                           !.disabled = disabled]],
            setting[1], setting[2]) :
     tag \in Tags, attr \in BOOLEAN, tabindex \in ClassifierTabIndexes,
     editable \in BOOLEAN, disabled \in BOOLEAN, setting \in Settings}

\* Pages for the enumerator: buttons with any of these tabindex attributes,
\* the shadow root open or closed.
EnumTabIndexes == {NoAttr, "0", "1", "2", "-1"}

EnumeratorPages ==
  {[n \in FxNodes |->
      IF n \in Items THEN [PlainPage[n] EXCEPT !.tabindex = tabs[n]]
      ELSE IF n = Fx.inner THEN [PlainPage[n] EXCEPT !.tabindex = innerTab]
      ELSE IF n = Fx.root THEN [PlainPage[n] EXCEPT !.mode = mode]
      ELSE PlainPage[n]] :
     tabs \in [Items -> EnumTabIndexes], innerTab \in EnumTabIndexes,
     mode \in {"open", "closed"}}

\* The queries write nothing the program keeps (no module state, no DOM
\* change): each is observed on the page as loaded, and its outcome is the
\* same after any other query.
\* isFocusable(element)
IsFocusable(element) ==
  /\ log = <<>>
  /\ log' = <<Call("isFocusable", 0, element),
              Call("return", 0, isFocusable(dom, element))>>
  /\ UNCHANGED <<domVars, activeElement, keeperVars, hookVars>>

\* isTabbable(element)
IsTabbable(element) ==
  /\ log = <<>>
  /\ log' = <<Call("isTabbable", 0, element),
              Call("return", 0, isTabbable(dom, element))>>
  /\ UNCHANGED <<domVars, activeElement, keeperVars, hookVars>>

\* getFocusableElements(container, options)
GetFocusableElements(container, options) ==
  /\ log = <<>>
  /\ log' = <<Call("getFocusableElements", options, container),
              Call("return", 0, getFocusableElementsWith(dom, container, options))>>
  /\ UNCHANGED <<domVars, activeElement, keeperVars, hookVars>>

InitQueries ==
  /\ InitPage
  /\ dom \in ClassifierPages \cup EnumeratorPages
  /\ layout = "sibling"

NextQueries ==
  \/ \E element \in {Null, Fx.firstItem, Fx.inner} : IsFocusable(element)
  \/ \E element \in {Null, Fx.firstItem, Fx.inner} : IsTabbable(element)
  \/ \E options \in Options : GetFocusableElements(Fx.container, options)
  \/ GetFocusableElements(Null, <<>>)

SpecQueries == InitQueries /\ [][NextQueries]_vars

(***************************************************************************)
(* Specification of the enumerator over shadow trees: a page script calls  *)
(* getFocusableElements on a container that holds a shadow host before its *)
(* light buttons and one after them; the first host's tree holds a second  *)
(* host with a tree of its own.  Each root is open or closed.              *)
(***************************************************************************)
Sh == [body       |-> 0,
       container  |-> 1,
       early      |-> 2,
       host       |-> 3,
       root       |-> 4,
       inner      |-> 5,
       innerHost  |-> 6,
       nestedRoot |-> 7,
       deep       |-> 8,
       middle     |-> 9,
       lateHost   |-> 10,
       lateRoot   |-> 11,
       late       |-> 12]

ShNodes == (Sh.body)..(Sh.late)
ShadowRoots == {Sh.root, Sh.nestedRoot, Sh.lateRoot}
Modes == {"open", "closed"}

ShadowRootNode(host, mode) ==
  [Element("", Null) EXCEPT !.kind = "shadow", !.host = host, !.mode = mode]

ShadowTabIndexes == {NoAttr, "1", "2", "-1"}

\* the tabindex of the buttons early, inner, deep and late varies, and the
\* mode of each root
ShadowPages ==
  {[n \in ShNodes |->
      IF n = Sh.body THEN Element("body", Null)
      ELSE IF n = Sh.container THEN Element("div", Sh.body)
      ELSE IF n = Sh.early THEN [Element("button", Sh.container) EXCEPT !.tabindex = tabs[n]]
      ELSE IF n = Sh.host THEN Element("div", Sh.container)
      ELSE IF n = Sh.root THEN ShadowRootNode(Sh.host, modes[n])
      ELSE IF n = Sh.inner THEN [Element("button", Sh.root) EXCEPT !.tabindex = tabs[n]]
      ELSE IF n = Sh.innerHost THEN Element("div", Sh.root)
      ELSE IF n = Sh.nestedRoot THEN ShadowRootNode(Sh.innerHost, modes[n])
      ELSE IF n = Sh.deep THEN [Element("button", Sh.nestedRoot) EXCEPT !.tabindex = tabs[n]]
      ELSE IF n = Sh.middle THEN Element("button", Sh.container)
      ELSE IF n = Sh.lateHost THEN Element("div", Sh.container)
      ELSE IF n = Sh.lateRoot THEN ShadowRootNode(Sh.lateHost, modes[n])
      ELSE [Element("button", Sh.lateRoot) EXCEPT !.tabindex = tabs[n]]] :
     tabs \in [{Sh.early, Sh.inner, Sh.deep, Sh.late} -> ShadowTabIndexes],
     modes \in [ShadowRoots -> Modes]}

InitShadow ==
  /\ InitPage
  /\ dom \in ShadowPages
  /\ layout = "sibling"

NextShadow ==
  \/ \E options \in Options : GetFocusableElements(Sh.container, options)
  \/ \E options \in Options : GetFocusableElements(Sh.root, options)
  \/ GetFocusableElements(Null, <<>>)

SpecShadow == InitShadow /\ [][NextShadow]_vars

(***************************************************************************)
(* Specification of the first-focus director used directly: a page script  *)
(* calls focusFirstElement on the overlay of the page (or on no container) *)
(* while the user moves the focus and the page changes its buttons.        *)
(***************************************************************************)
FocusFirstElementRan(r, container, options) ==
  /\ activeElement' = r.active
  /\ log' = <<Call("focusFirstElement", options, container)>>
              \o Append(r.log, Returned(r))

\* focusFirstElement(container, options)
FocusFirstElement(container, options) ==
  /\ FocusFirstElementRan(
       focusFirstElementWith(World(dom, activeElement, MaxDispatch), container, options),
       container, options)
  /\ UNCHANGED <<domVars, keeperVars, hookVars>>

\* the page sets or removes the tabindex attribute of an element
SetTabIndex(e, value) ==
  /\ dom[e].tabindex # value
  /\ dom' = [dom EXCEPT ![e].tabindex = value]
  /\ log' = <<>>
  /\ UNCHANGED <<throwsOn, inert, layout, activeElement, keeperVars, hookVars>>

DirectorTabIndexes == {NoAttr, "1", "-1"}

NextDirector ==
  \/ \E container \in {Null, N.c1}, options \in Options :
       FocusFirstElement(container, options)
  \/ \E e \in {N.opener} \cup Children1 : UserFocus(e)
  \/ \E e \in Children1 : ToggleDisabled(e)
  \/ \E e \in Children1 : ToggleThrows(e)
  \/ \E value \in DirectorTabIndexes : SetTabIndex(N.last1, value)

SpecDirector == InitKeeper /\ [][NextDirector]_vars

(***************************************************************************)
(* Specification of the first-focus director on a page that makes buttons  *)
(* inert: the classifier does not look at the inert attribute (nor at style *)
(* sheets), and focus() on such an element does nothing and throws nothing. *)
(***************************************************************************)
\* the page sets or removes what makes focus() on the element a silent no-op;
\* a browser may or may not have fixed the focus up by the next turn
ToggleInert(e) ==
  /\ inert' = IF e \in inert THEN inert \ {e} ELSE inert \cup {e}
  /\ activeElement' \in {activeElement,
                         IF e = activeElement /\ e \notin inert THEN N.body ELSE activeElement}
  /\ log' = <<>>
  /\ UNCHANGED <<dom, throwsOn, layout, keeperVars, hookVars>>

NextInert ==
  \/ \E container \in {Null, N.c1}, options \in Options :
       FocusFirstElement(container, options)
  \/ \E e \in {N.opener} \cup Children1 : UserFocus(e)
  \/ \E e \in Children1 : ToggleDisabled(e)
  \/ \E e \in Children1 : ToggleInert(e)

SpecInert == InitKeeper /\ [][NextInert]_vars

(***************************************************************************)
(* Specification of the default keeper and a manager driven side by side:  *)
(* from empty slots, every saveFocus and returnFocus is applied to the     *)
(* default instance and to the manager on the same page, and the log       *)
(* records what each returned and the active element the manager's call    *)
(* left; the page goes on from the default instance's outcome.             *)
(***************************************************************************)
BothSaveFocus ==
  /\ savedFocusElement' = saveFocus(activeElement)
  /\ savedElement' = managerSlots(savedElement, 1, managerSaveFocus(activeElement))
  /\ log' = <<Call("saveFocus", 0, activeElement),
              Call("return", 0, saveFocus(activeElement)),
              Call("manager.saveFocus", 1, activeElement),
              Call("return", 0, managerSaveFocus(activeElement))>>
  /\ UNCHANGED <<domVars, activeElement, hookVars>>

BothReturnFocusRan(r, q, fallbackElement) ==
  /\ savedFocusElement' = r.slot
  /\ savedElement' = managerSlots(savedElement, 1, q.slot)
  /\ activeElement' = r.w.active
  /\ log' = <<Call("returnFocus", 0, fallbackElement), Returned(r.w),
              Call("manager.returnFocus", 1, fallbackElement), Returned(q.w),
              Call("document.activeElement", 1, q.w.active)>>

BothReturnFocus(fallbackElement) ==
  /\ BothReturnFocusRan(
       returnFocus(World(dom, activeElement, MaxDispatch), savedFocusElement,
                   fallbackElement),
       managerReturnFocus(World(dom, activeElement, MaxDispatch), savedElement[1],
                          fallbackElement),
       fallbackElement)
  /\ UNCHANGED <<domVars, hookVars>>

NextPair ==
  \/ BothSaveFocus
  \/ \E fallbackElement \in FallbackOptions : BothReturnFocus(fallbackElement)
  \/ \E e \in KeeperElements : UserFocus(e)
  \/ \E e \in Hostile : ToggleDisabled(e)
  \/ \E e \in Hostile : ToggleThrows(e)

SpecPair == InitKeeper /\ [][NextPair]_vars

(***************************************************************************)
(* Specification of focusFirstElementBySelector used directly: a page      *)
(* script calls it on the document body, on the overlay or on no           *)
(* container, while the user moves the focus, the page disables buttons    *)
(* and focus methods start or stop throwing.                               *)
(***************************************************************************)
FocusFirstElementBySelectorRan(r, container, selector) ==
  /\ activeElement' = r.active
  /\ log' = <<Call("focusFirstElementBySelector", selector, container)>>
              \o Append(r.log, Returned(r))

\* focusFirstElementBySelector(container, selector)
FocusFirstElementBySelector(container, selector) ==
  /\ FocusFirstElementBySelectorRan(
       focusFirstElementBySelector(World(dom, activeElement, MaxDispatch),
                                   container, selector),
       container, selector)
  /\ UNCHANGED <<domVars, keeperVars, hookVars>>

NextSelector ==
  \/ \E container \in {Null, N.body, N.c1}, selector \in Selectors :
       FocusFirstElementBySelector(container, selector)
  \/ \E e \in {N.opener} \cup Children1 : UserFocus(e)
  \/ \E e \in Children1 : ToggleDisabled(e)
  \/ \E e \in {N.opener} \cup Children1 : ToggleThrows(e)

SpecSelector == InitKeeper /\ [][NextSelector]_vars

(***************************************************************************)
(* Vocabulary of the properties.                                           *)
(***************************************************************************)
InSeq(seq, x) == \E i \in 1..Len(seq) : seq[i] = x
\* how many calls of op the sequence of calls holds
CallsIn(calls, op) == Cardinality({i \in 1..Len(calls) : calls[i].op = op})

KeydownInstalled(s) == \E i \in 1..Len(keydownListeners) : keydownListeners[i].session = s
FocusinInstalled(s) == InSeq(focusinListeners, s)
TimerPending(s) == InSeq(timers, s)

\* the session's options say active and its container is bound
ActiveByFlags(s) == mounted[s] /\ props[s].active /\ containerRef[s] # Null
\* the session is in the Active state: it was activated over its container
\* (the effects ran and installed the key listener)
Active(s) == ActiveByFlags(s) /\ KeydownInstalled(s)
\* the same, of the hook state given
ActiveIn(m, p, ref, listeners, s) ==
  /\ m[s] /\ p[s].active /\ ref[s] # Null
  /\ \E i \in 1..Len(listeners) : listeners[i].session = s

\* the last step was a direct call of op that returned
Asked(op) == Len(log) = 2 /\ log[1].op = op /\ log[2].op = "return"
\* the argument, the options and the return value of that call
Argument == log[1].e
OptionsGiven == log[1].s
Answer == log[2].e
OptionGiven(name, value) ==
  name \in DOMAIN OptionsGiven /\ OptionsGiven[name] = value

\* the positive tab index an element declares, 0 when it declares none
PositiveTabIndex(d, e) ==
  IF d[e].tabindex \in {"1", "2", "3"} THEN parseInt(d[e].tabindex).n ELSE 0
\* the order of the candidates before sorting: the container's own descendants
\* in document order, then those of shadow trees
InShadowTree(d, e) == d[e].parent # Null /\ d[d[e].parent].kind = "shadow"
OriginalBefore(d, a, b) ==
  IF InShadowTree(d, a) = InShadowTree(d, b) THEN a < b ELSE InShadowTree(d, b)
\* a hiding marker on the node
HasMarker(d, a) ==
  d[a].hidden \/ d[a].displayNone \/ d[a].visibilityHidden \/ d[a].ariaHidden
\* attached, visible (no hiding marker on it or on an ancestor) and enabled
Visible(d, e) == \A a \in DOMAIN d : contains(d, a, e) => ~HasMarker(d, a)
Eligible(d, e) == isConnected(d, e) /\ Visible(d, e) /\ ~d[e].disabled
\* the classifier the options select
Classified(d, e, tabbableOnly) ==
  IF tabbableOnly THEN isTabbable(d, e) ELSE isFocusable(d, e)

\* the tabbable elements of a container, as the trap enumerates them
TabbablesIn(d, c) == getFocusableElements(d, c, TRUE, TRUE)
Tabbables(s) == TabbablesIn(dom, containerRef[s])
Inside(s) == contains(dom, containerRef[s], activeElement)

C2_TabWrapsAround ==
  [][\A shiftKey \in BOOLEAN :
       LET tabbables == Tabbables(1)
           edge == tabbables[IF shiftKey THEN 1 ELSE Len(tabbables)]
           other == tabbables[IF shiftKey THEN Len(tabbables) ELSE 1]
       IN (/\ Active(1)
           /\ Len(tabbables) >= 1
           /\ activeElement = edge
           /\ KeyDown("Tab", shiftKey))
            => /\ InSeq(log', Call("preventDefault", 1, Null))
               /\ activeElement' = other]_vars

\* Shift+Tab on the first of several tabbable elements has just wrapped to the last
C2_Witness ==
  /\ Active(1)
  /\ Len(Tabbables(1)) = NumChildren
  /\ log = <<Call("preventDefault", 1, Null), Call("focus", 0, N.last1)>>
  /\ activeElement = N.last1

(***************************************************************************)
(* C8.  Pressing Escape while a session is Active invokes the supplied     *)
(* onEscapeKey callback exactly once, and nothing else changes: the        *)
(* session stays Active, both listeners stay installed, the focus does not *)
(* move and the saved-focus slot keeps its content.                        *)
(***************************************************************************)
C8_EscapeOnlyCallsBack ==
  [][\A shiftKey \in BOOLEAN :
       (/\ Active(1)
        /\ props[1].onEscapeKey # Undefined
        /\ KeyDown("Escape", shiftKey))
         => /\ log' = <<Call("onEscapeKey", 1, Null)>>
            /\ activeElement' = activeElement
            /\ savedFocusElement' = savedFocusElement
            /\ hasSavedFocus' = hasSavedFocus
            /\ keydownListeners' = keydownListeners
            /\ focusinListeners' = focusinListeners
            /\ props' = props /\ mounted' = mounted /\ containerRef' = containerRef
            /\ timers' = timers /\ microtasks' = microtasks]_vars

\* Escape has just been pressed in an Active session that locks the focus
C8_Witness ==
  /\ Active(1)
  /\ FocusinInstalled(1)
  /\ hasSavedFocus[1]
  /\ log = <<Call("onEscapeKey", 1, Null)>>

(***************************************************************************)
(* C3.  When a session that saved the focus is deactivated (its `active`   *)
(* flag flips to false while it stays mounted) or unmounted, with          *)
(* returnFocusOnDeactivate enabled, the deferred restore is scheduled; and *)
(* the deferred restore, when it runs, calls returnFocus exactly once,     *)
(* then clears the saved-focus guard, then fires onFocusRestore (if        *)
(* supplied) exactly once.                                                 *)
(***************************************************************************)
C3_DeactivationRestores ==
  [][/\ (/\ Active(1)
         /\ hasSavedFocus[1]
         /\ props[1].returnFocusOnDeactivate
         /\ ~mounted'[1] \/ ~props'[1].active)
          => microtasks' = <<RestoreTask(1, props[1].onFocusRestore)>>
     /\ RunMicrotask
          => LET t == Head(microtasks)
                 rest == IF t.onFocusRestore # Undefined
                         THEN <<Call("onFocusRestore", t.session, Null)>>
                         ELSE <<>>
             IN /\ CallsIn(log', "returnFocus") = 1
                /\ log'[1].op = "returnFocus"
                /\ SubSeq(log', Len(log') - Len(rest), Len(log'))
                     = <<Call("clearGuard", t.session, Null)>> \o rest
                /\ ~hasSavedFocus'[t.session]]_vars

(***************************************************************************)
(* C9.  Within one session, returnFocus is called only after the session's *)
(* key listener and focus-arrival listener have been removed: the deferred *)
(* restore never runs while the session's listeners are installed.         *)
(***************************************************************************)
C9_RestoreAfterListenerRemoval ==
  [][RunMicrotask
       => LET s == Head(microtasks).session
          IN ~KeydownInstalled(s) /\ ~FocusinInstalled(s)]_vars

(***************************************************************************)
(* C10.  Every Inactive-to-Active transition of a session with             *)
(* restoreFocus enabled calls saveFocus exactly once, capturing the        *)
(* element that is active at that activation - also when the session had   *)
(* been deactivated by `active` flipping to false before.                  *)
(***************************************************************************)
C10_EveryActivationSaves ==
  [][(/\ ~mounted[1] \/ ~props[1].active
      /\ ActiveIn(mounted', props', containerRef', keydownListeners', 1)
      /\ props'[1].restoreFocus)
       => /\ CallsIn(log', "saveFocus") = 1
          /\ InSeq(log', Call("saveFocus", 1, activeElement'))
          /\ savedFocusElement' = activeElement']_vars

(***************************************************************************)
(* C4.  Coexisting trap sessions do not share a saved-focus slot: when a   *)
(* session saves the focus while another session holds a saved element,    *)
(* the save does not overwrite the other session's saved element.          *)
(***************************************************************************)
C4_SaveKeepsOtherSessionsElement ==
  [][\A s \in Sessions, t \in Sessions :
       (/\ s # t
        /\ hasSavedFocus[t]
        /\ ~hasSavedFocus[s] /\ hasSavedFocus'[s])
         => savedFocusElement' = savedFocusElement]_vars

(***************************************************************************)
(* C5.  Two focus managers are independent: a manager's saveFocus writes   *)
(* its own slot only, and a manager's returnFocus, its saved element being *)
(* focusable, restores the focus to that element, returns it, empties its  *)
(* own slot and leaves the other manager's slot and the default slot as    *)
(* they were.                                                              *)
(***************************************************************************)
C5_ManagersIndependent ==
  [][\A m \in Managers :
       /\ ManagerSaveFocus(m)
            => /\ savedElement'[m] = activeElement
               /\ \A k \in Managers \ {m} : savedElement'[k] = savedElement[k]
               /\ savedFocusElement' = savedFocusElement
       /\ \A fallbackElement \in FallbackOptions :
            (/\ ManagerReturnFocus(m, fallbackElement)
             /\ savedElement[m] # Null
             /\ browserFocusable(dom, savedElement[m])
             /\ savedElement[m] \notin throwsOn)
              => /\ activeElement' = savedElement[m]
                 /\ log'[Len(log')] = Call("return", 0, savedElement[m])
                 /\ savedElement'[m] = Null
                 /\ \A k \in Managers \ {m} : savedElement'[k] = savedElement[k]
                 /\ savedFocusElement' = savedFocusElement]_vars

\* manager 1 holds the opener; manager 2 has just returned the focus to the
\* button of the overlay it had saved
C5_Witness ==
  /\ savedElement[1] = N.opener
  /\ savedElement[2] = Null
  /\ activeElement = N.first1
  /\ log = <<Call("manager.returnFocus", 2, Null), Call("returnFocus", 0, N.first1),
             Call("focus", 0, N.first1), Call("return", 0, N.first1)>>

(***************************************************************************)
(* C6.  Round trip: returnFocus() called while the saved element X still   *)
(* is the active element (and X.focus() does not throw) leaves X active,   *)
(* returns X and empties the slot; returnFocus() called on the empty slot  *)
(* calls focus() on the fallback element and returns it.                   *)
(***************************************************************************)
C6_RoundTrip ==
  [][\A fallbackElement \in FallbackOptions :
       /\ (/\ ReturnFocus(fallbackElement)
           /\ savedFocusElement # Null
           /\ savedFocusElement = activeElement
           /\ savedFocusElement \notin throwsOn)
            => /\ activeElement' = savedFocusElement
               /\ log'[Len(log')] = Call("return", 0, savedFocusElement)
               /\ savedFocusElement' = Null
       /\ (/\ ReturnFocus(fallbackElement)
           /\ savedFocusElement = Null
           /\ fallbackElement # Null
           /\ fallbackElement \notin throwsOn)
            => /\ log' = <<Call("returnFocus", 0, Null), Call("focus", 0, fallbackElement),
                           Call("return", 0, fallbackElement)>>
               /\ browserFocusable(dom, fallbackElement) => activeElement' = fallbackElement
               /\ savedFocusElement' = Null]_vars

\* returnFocus() has just given the saved button back: it is active, it was
\* returned, the slot is empty
C6_Witness ==
  /\ savedFocusElement = Null
  /\ activeElement = N.first1
  /\ log = <<Call("returnFocus", 0, N.first1), Call("focus", 0, N.first1),
             Call("return", 0, N.first1)>>

(***************************************************************************)
(* C7.  After every call of returnFocus, of the default instance or of a   *)
(* manager, the saved-focus slot it works on is empty, whichever branch    *)
(* was taken.                                                              *)
(***************************************************************************)
C7_SlotEmptyAfterReturnFocus ==
  [][/\ (\E fallbackElement \in FallbackOptions : ReturnFocus(fallbackElement))
          => savedFocusElement' = Null
     /\ \A m \in Managers :
          (\E fallbackElement \in FallbackOptions : ManagerReturnFocus(m, fallbackElement))
            => savedElement'[m] = Null]_vars

(***************************************************************************)
(* C11.  When the deferred auto-focus of a session runs over a container   *)
(* with zero tabbable descendants, it ends with the container itself as    *)
(* the active element; the container is given a tabindex (-1) only if it   *)
(* had none, nothing else of the page changes, and no exception is raised. *)
(***************************************************************************)
C11_EmptyContainerFocused ==
  [][\A s \in Sessions :
       (/\ TimerFires(s)
        /\ containerRef[s] # Null
        /\ Len(Tabbables(s)) = 0)
         => /\ activeElement' = containerRef[s]
            /\ dom' = [dom EXCEPT ![containerRef[s]].tabindex =
                                    IF @ = NoAttr THEN "-1" ELSE @]
            /\ CallsIn(log', "uncaught") = 0]_vars

\* the deferred auto-focus found nothing to focus, gave the container a
\* tabindex and focused it
C11_Witness ==
  /\ Active(1)
  /\ Len(Tabbables(1)) = 0
  /\ dom[N.c1].tabindex = "-1"
  /\ activeElement = N.c1
  /\ log = <<Call("focusFirstElement", 1, N.c1), Call("console.warn", 1, Null),
             Call("setAttribute", 1, N.c1), Call("focus", 0, N.c1)>>

C13_PositiveFirstThenDocumentOrder ==
  (Asked("getFocusableElements") /\ Argument # Null)
    => /\ \A i \in 1..Len(Answer), j \in 1..Len(Answer) :
            i < j
              => /\ PositiveTabIndex(dom, Answer[j]) > 0
                      => /\ PositiveTabIndex(dom, Answer[i]) > 0
                         /\ PositiveTabIndex(dom, Answer[i])
                              <= PositiveTabIndex(dom, Answer[j])
                 /\ PositiveTabIndex(dom, Answer[i]) = PositiveTabIndex(dom, Answer[j])
                      => OriginalBefore(dom, Answer[i], Answer[j])
       /\ \A e \in Items :
            Classified(dom, e, OptionGiven("onlyTabbable", TRUE)) => InSeq(Answer, e)

\* items with tabindex 2, none, 1 in document order and a button in the open
\* shadow tree: the call returned the item with 1, the item with 2, the item
\* with none, then the shadow button
C13_Witness ==
  /\ Asked("getFocusableElements")
  /\ dom[Fx.firstItem].tabindex = "2"
  /\ dom[Fx.firstItem + 1].tabindex = NoAttr
  /\ dom[Fx.firstItem + 2].tabindex = "1"
  /\ Len(Answer) >= 4
  /\ SubSeq(Answer, 1, 3) = <<Fx.firstItem + 2, Fx.firstItem, Fx.firstItem + 1>>
  /\ Answer[Len(Answer)] = Fx.inner

(***************************************************************************)
(* C14.  Every element of the list returned by getFocusableElements        *)
(* satisfies the classifier the options select: isTabbable when            *)
(* onlyTabbable is true, isFocusable otherwise; also the elements that     *)
(* come from the enumeration of a shadow root.                             *)
(***************************************************************************)
C14_ResultSatisfiesClassifier ==
  Asked("getFocusableElements")
    => \A i \in 1..Len(Answer) :
         Classified(dom, Answer[i], OptionGiven("onlyTabbable", TRUE))

\* a call with onlyTabbable: true returned the button of the shadow tree while
\* an item with tabindex -1 was left out
C14_Witness ==
  /\ Asked("getFocusableElements")
  /\ OptionGiven("onlyTabbable", TRUE)
  /\ InSeq(Answer, Fx.inner)
  /\ dom[Fx.firstItem].tabindex = "-1"
  /\ ~InSeq(Answer, Fx.firstItem)
  /\ Len(Answer) = NumItems

(***************************************************************************)
(* C15.  For every container and every includeShadowDOM setting, the       *)
(* elements returned by getFocusableElements with onlyTabbable: true are   *)
(* among those returned with onlyTabbable: false; isTabbable(e) implies    *)
(* isFocusable(e) for every element e.                                     *)
(***************************************************************************)
C15_TabbableSubsetOfFocusable ==
  /\ (Asked("getFocusableElements") /\ OptionGiven("onlyTabbable", TRUE))
       => \A i \in 1..Len(Answer) :
            InSeq(getFocusableElementsWith(
                    dom, Argument, [OptionsGiven EXCEPT !["onlyTabbable"] = FALSE]),
                  Answer[i])
  /\ (Asked("isTabbable") /\ Answer) => isFocusable(dom, Argument)

\* a call with onlyTabbable: true and includeShadowDOM: false returned every
\* item of the container
C15_Witness ==
  /\ Asked("getFocusableElements")
  /\ OptionGiven("onlyTabbable", TRUE)
  /\ OptionGiven("includeShadowDOM", FALSE)
  /\ Len(Answer) = NumItems
  /\ dom[Fx.firstItem].tag = "a"

(***************************************************************************)
(* C16.  For every element that has an ancestor, at any depth, marked      *)
(* hidden, display:none, visibility:hidden or aria-hidden="true",          *)
(* isFocusable is false and so is isTabbable, whatever the element's own   *)
(* tag, tabindex and attributes.                                           *)
(***************************************************************************)
C16_HiddenAncestorNotFocusable ==
  ((Asked("isFocusable") \/ Asked("isTabbable")) /\ Argument # Null)
    => ((\E a \in DOMAIN dom :
           a # Argument /\ contains(dom, a, Argument) /\ HasMarker(dom, a))
         => Answer = FALSE)

\* isFocusable answered false for a button with tabindex 0 whose grandparent,
\* the section, is aria-hidden
C16_Witness ==
  /\ Asked("isFocusable")
  /\ Argument = Fx.firstItem
  /\ dom[Fx.firstItem].tag = "button"
  /\ dom[Fx.firstItem].tabindex = "0"
  /\ dom[Fx.section].ariaHidden
  /\ isConnected(dom, Fx.firstItem)
  /\ Answer = FALSE

(***************************************************************************)
(* C17.  For every element with tabindex="-1", isTabbable is false; no     *)
(* such element is in a list returned by getFocusableElements with         *)
(* onlyTabbable: true, so none is the first or the last element the trap   *)
(* picks.                                                                  *)
(***************************************************************************)
C17_MinusOneNeverTabbable ==
  /\ (Asked("isTabbable") /\ Argument # Null /\ dom[Argument].tabindex = "-1")
       => Answer = FALSE
  /\ (Asked("getFocusableElements") /\ OptionGiven("onlyTabbable", TRUE))
       => \A i \in 1..Len(Answer) : dom[Answer[i]].tabindex # "-1"

\* isTabbable answered false for an attached, visible, enabled button with
\* tabindex -1
C17_Witness ==
  /\ Asked("isTabbable")
  /\ Argument = Fx.firstItem
  /\ dom[Fx.firstItem].tag = "button"
  /\ dom[Fx.firstItem].tabindex = "-1"
  /\ ~dom[Fx.firstItem].disabled
  /\ isConnected(dom, Fx.firstItem)
  /\ \A a \in DOMAIN dom : ~HasMarker(dom, a)
  /\ Answer = FALSE

(***************************************************************************)
(* C18.  With onlyTabbable false, an otherwise eligible element carrying   *)
(* tabindex="-1" (attached, visible, enabled) is treated as focusable:     *)
(* isFocusable answers true for it and getFocusableElements includes it;   *)
(* only onlyTabbable: true excludes it.                                    *)
(***************************************************************************)
C18_MinusOneFocusable ==
  /\ (/\ Asked("isFocusable")
      /\ Argument # Null
      /\ dom[Argument].tabindex = "-1"
      /\ Eligible(dom, Argument))
       => Answer = TRUE
  /\ (Asked("getFocusableElements") /\ Argument # Null)
       => \A e \in Items :
            (dom[e].tabindex = "-1" /\ Eligible(dom, e))
              => (InSeq(Answer, e) <=> ~OptionGiven("onlyTabbable", TRUE))

(***************************************************************************)
(* C19.  For an attached, visible, enabled element without a tabindex      *)
(* attribute, isFocusable is true exactly in these cases: a/area with      *)
(* href; input whose type is not hidden; button, select, textarea,         *)
(* summary; audio/video with controls; details that is open; or any        *)
(* element of any kind marked contenteditable.                             *)
(***************************************************************************)
C19_FocusableByKind ==
  (/\ Asked("isFocusable")
   /\ Argument # Null
   /\ dom[Argument].tabindex = NoAttr
   /\ Eligible(dom, Argument))
    => (Answer <=>
          \/ dom[Argument].tag \in {"a", "area"} /\ dom[Argument].href
          \/ dom[Argument].tag = "input" /\ ~dom[Argument].typeHidden
          \/ dom[Argument].tag \in {"button", "select", "textarea", "summary"}
          \/ dom[Argument].tag \in {"audio", "video"} /\ dom[Argument].controls
          \/ dom[Argument].tag = "details" /\ dom[Argument].open
          \/ dom[Argument].contentEditable)

(***************************************************************************)
(* C20.  focusFirstElement(container, options) runs the enumerator with    *)
(* onlyTabbable defaulting to true, calls focus on element zero of the     *)
(* result and returns that element; it returns null, without throwing and  *)
(* without moving the focus, when the container is absent, the list is     *)
(* empty, or the focus attempt throws.                                     *)
(***************************************************************************)
C20_FocusFirstElement ==
  [][(Len(log') >= 2 /\ log'[1].op = "focusFirstElement")
       => LET container == log'[1].e
              options == log'[1].s
              elements ==
                getFocusableElements(
                  dom, container,
                  "onlyTabbable" \notin DOMAIN options \/ options.onlyTabbable,
                  "includeShadowDOM" \notin DOMAIN options \/ options.includeShadowDOM)
              returned == log'[Len(log')]
          IN /\ returned.op = "return"
             /\ dom' = dom
             /\ IF container = Null \/ Len(elements) = 0
                THEN /\ returned.e = Null
                     /\ Len(log') = 2
                     /\ activeElement' = activeElement
                ELSE IF elements[1] \in throwsOn
                THEN /\ returned.e = Null
                     /\ InSeq(SubSeq(log', 2, Len(log')), Call("focus", 0, elements[1]))
                     /\ activeElement' = activeElement
                ELSE /\ returned.e = elements[1]
                     /\ SubSeq(log', 2, Len(log') - 1) = <<Call("focus", 0, elements[1])>>
                     /\ browserFocusable(dom, elements[1])
                          => activeElement' = elements[1]]_vars

\* focusFirstElement(container) met a first button whose focus() throws: it
\* logged the error, returned null and the opener kept the focus
C20_Witness ==
  /\ Len(log) = 4
  /\ log[1].op = "focusFirstElement"
  /\ log[1].e = N.c1
  /\ DOMAIN log[1].s = {}
  /\ log[2] = Call("focus", 0, N.first1)
  /\ log[3] = Call("console.error", 0, N.first1)
  /\ log[4] = Call("return", 0, Null)
  /\ N.first1 \in throwsOn
  /\ activeElement = N.opener

(***************************************************************************)
(* C21.  focusFirstElementBySelector tries the matching descendants in     *)
(* document order and returns the first one that is the active element     *)
(* after its focus attempt; a candidate whose focus attempt throws or does *)
(* not take effect is skipped; it returns null when every candidate fails  *)
(* or none exists.  A non-null return value is the active element.         *)
(***************************************************************************)
C21_FirstThatTakesFocus ==
  [][(Len(log') >= 2 /\ log'[1].op = "focusFirstElementBySelector")
       => LET container == log'[1].e
              selector == log'[1].s
              candidates ==
                IF container = Null \/ selector \in {"", Malformed} THEN <<>>
                ELSE SelectSeq(DocumentOrder(dom),
                               LAMBDA n : /\ n # container
                                          /\ contains(dom, container, n)
                                          /\ selector = "*" \/ dom[n].tag = selector)
              takes(e) == e \notin throwsOn
                            /\ (e = activeElement \/ browserFocusable(dom, e))
              taking == {i \in 1..Len(candidates) : takes(candidates[i])}
              tried == IF taking = {} THEN Len(candidates)
                       ELSE CHOOSE i \in taking : \A j \in taking : i <= j
              found == IF taking = {} THEN Null ELSE candidates[tried]
          IN /\ log'[Len(log')] = Call("return", 0, found)
             /\ activeElement' = IF found = Null THEN activeElement ELSE found
             /\ selector # Malformed
                  => /\ Len(log') = tried + 2
                     /\ \A i \in 1..tried : log'[i + 1] = Call("focus", 0, candidates[i])]_vars

\* every element of the page was tried in document order: the opener threw,
\* the container and the disabled button did not take the focus, the last
\* button took it and was returned
C21_Witness ==
  /\ Len(log) = 6
  /\ log[1].op = "focusFirstElementBySelector"
  /\ log[1].s = "*"
  /\ log[1].e = N.body
  /\ N.opener \in throwsOn
  /\ dom[N.first1].disabled
  /\ log[5] = Call("focus", 0, N.last1)
  /\ log[6] = Call("return", 0, N.last1)
  /\ activeElement = N.last1

(***************************************************************************)
(* C22.  returnFocus falls back: with nothing saved it calls focus() on    *)
(* the fallback element and returns it; with an element saved whose focus  *)
(* attempt throws or fails verification (the active element is not the     *)
(* saved element afterwards), it calls focus() on the fallback element and *)
(* returns it.  The fallback element is one whose focus() does not throw;  *)
(* it becomes the active element when the browser can focus it.            *)
(***************************************************************************)
C22_FallsBack ==
  [][\A fallbackElement \in FallbackOptions \ {Null} :
       (/\ ReturnFocus(fallbackElement)
        /\ fallbackElement \notin throwsOn
        /\ \/ savedFocusElement = Null
           \/ savedFocusElement \in throwsOn
           \/ /\ savedFocusElement # activeElement
              /\ ~browserFocusable(dom, savedFocusElement))
         => /\ log'[Len(log')] = Call("return", 0, fallbackElement)
            /\ log'[Len(log') - 1] = Call("focus", 0, fallbackElement)
            /\ activeElement' = IF browserFocusable(dom, fallbackElement)
                                THEN fallbackElement
                                ELSE activeElement]_vars

\* the saved button threw on focus(); the error was logged, the opener given
\* as the fallback was focused and returned
C22_Witness ==
  /\ N.first1 \in throwsOn
  /\ log = <<Call("returnFocus", 0, N.first1), Call("focus", 0, N.first1),
             Call("console.error", 0, N.first1), Call("focus", 0, N.opener),
             Call("return", 0, N.opener)>>
  /\ activeElement = N.opener

(***************************************************************************)
(* C23.  A focus manager behaves as the default saveFocus/returnFocus      *)
(* pair: for every sequence of save, return and focus-change operations    *)
(* (failing focus attempts included) applied to both from empty slots, the *)
(* returned values (or the exception), the resulting active element and    *)
(* the slot contents are equal step by step.                               *)
(***************************************************************************)
C23_ManagerBehavesAsDefault ==
  /\ savedElement[1] = savedFocusElement
  /\ (Len(log) = 4 /\ log[1].op = "saveFocus") => log[4] = log[2]
  /\ (Len(log) = 5 /\ log[1].op = "returnFocus")
       => /\ log[4] = log[2]
          /\ log[5].e = activeElement

\* both instances held the button whose focus() threw, and both returned the
\* opener given as the fallback, leaving it the active element
C23_Witness ==
  /\ Len(log) = 5
  /\ log[1] = Call("returnFocus", 0, N.opener)
  /\ log[2] = Call("return", 0, N.opener)
  /\ log[4] = Call("return", 0, N.opener)
  /\ savedElement[1] = N.first1
  /\ N.first1 \in throwsOn
  /\ activeElement = N.opener

(***************************************************************************)
(* C24.  No exception escapes the trap controller: when a focus() call     *)
(* made by the controller throws (on the container at a Tab press with no  *)
(* tabbable element, or as the auto-focus fallback), the error is absorbed *)
(* - no listener or callback of the controller ends by an uncaught         *)
(* exception.                                                              *)
(***************************************************************************)
C24_NoExceptionEscapes == CallsIn(log, "uncaught") = 0

(***************************************************************************)
(* C25.  returnFocus, of the default instance and of a manager, never      *)
(* propagates an exception: in every branch, the nothing-saved branch      *)
(* included, a focus attempt that throws on the saved element or on the    *)
(* fallback element is absorbed and the call returns a value.              *)
(***************************************************************************)
C25_ReturnFocusNeverThrows == CallsIn(log, "throw") = 0

C28_PendingAutoFocusCancelled ==
  [][\A s \in Sessions :
       /\ (/\ mounted[s] /\ props[s].active
           /\ ~mounted'[s] \/ ~props'[s].active)
            => /\ ~InSeq(timers', s)
               /\ activeElement' = fixup(dom', activeElement)
               /\ dom'[Container(s)].tabindex = dom[Container(s)].tabindex
               /\ CallsIn(log', "focusFirstElement") = 0
       /\ InSeq(timers', s)
            => /\ mounted'[s] /\ props'[s].active /\ props'[s].autoFocus
               /\ Cardinality({i \in 1..Len(timers') : timers'[i] = s}) = 1
       /\ CallsIn(log', "focusFirstElement") > 0 => TimerFires(1)]_vars

\* the session was deactivated while the focus still was on the opener it had
\* saved: no timeout is pending, the container was given no tabindex
C28_Witness ==
  /\ mounted[1]
  /\ ~props[1].active
  /\ props[1].autoFocus
  /\ hasSavedFocus[1]
  /\ timers = <<>>
  /\ log = <<>>
  /\ savedFocusElement = N.opener
  /\ activeElement = N.opener
  /\ dom[N.c1].tabindex = NoAttr

(***************************************************************************)
(* C29.  If a session is torn down without having saved the focus (it was  *)
(* never Active with a bound container, or restoreFocus is disabled), no   *)
(* restore is scheduled: a commit of a session whose saved-focus guard is  *)
(* not set queues no deferred restore, and returnFocus and onFocusRestore  *)
(* are called only by the deferred restore of a session whose guard is     *)
(* set.                                                                    *)
(***************************************************************************)
C29_NoRestoreWithoutSave ==
  [][/\ \A s \in Sessions :
          (/\ mounted[s]
           /\ ~hasSavedFocus[s]
           /\ ~mounted'[s] \/ props'[s] # props[s])
            => /\ microtasks' = <<>>
               /\ CallsIn(log', "returnFocus") = 0
               /\ CallsIn(log', "onFocusRestore") = 0
     /\ (CallsIn(log', "returnFocus") > 0 \/ CallsIn(log', "onFocusRestore") > 0)
          => /\ microtasks # <<>>
             /\ hasSavedFocus[Head(microtasks).session]]_vars

\* a session that had saved nothing has just been unmounted, the focus being
\* on the opener: no restore is queued
C29_Witness ==
  /\ ~mounted[1]
  /\ ~hasSavedFocus[1]
  /\ savedFocusElement = Null
  /\ activeElement = N.opener
  /\ log = <<>>
  /\ microtasks = <<>>

(***************************************************************************)
(* C30.  While a session is Active, a Tab or Shift+Tab key press when the  *)
(* container has no tabbable element prevents the default and focuses the  *)
(* container itself: the active element is the container afterwards.       *)
(***************************************************************************)
C30_TabOnEmptyContainerFocusesIt ==
  [][\A shiftKey \in BOOLEAN :
       (/\ Active(1)
        /\ Len(Tabbables(1)) = 0
        /\ KeyDown("Tab", shiftKey))
         => /\ InSeq(log', Call("preventDefault", 1, Null))
            /\ activeElement' = containerRef[1]]_vars

(***************************************************************************)
(* C31.  While a session is Active over a container with tabbable          *)
(* elements, every Tab press other than Shift+Tab on the first element and *)
(* Tab on the last element is left to native behaviour, and so is every    *)
(* key other than Tab and Escape: the key listener neither prevents the    *)
(* default nor moves the focus - the step is the browser's default action  *)
(* alone - and no session state changes.                                   *)
(***************************************************************************)
C31_OtherKeysLeftToBrowser ==
  [][(/\ Active(1)
      /\ microtasks = <<>>
      /\ dom' = dom /\ props' = props /\ mounted' = mounted
      /\ containerRef' = containerRef /\ timers' = timers)
       => LET tabbables == Tabbables(1)
          IN Len(tabbables) >= 1
               => \A key \in Keys \ {"Escape"}, shiftKey \in BOOLEAN :
                    (/\ key = "Tab" => activeElement # tabbables[IF shiftKey THEN 1
                                                                 ELSE Len(tabbables)]
                     /\ KeyDown(key, shiftKey))
                      => /\ ~InSeq(log', Call("preventDefault", 1, Null))
                         /\ \E budget \in Budgets, leave \in BOOLEAN :
                              LET native == defaultAction(
                                              World(dom, activeElement, budget),
                                              key, shiftKey, leave)
                              IN activeElement' = native.active /\ log' = native.log
                         /\ key # "Tab" => activeElement' = activeElement /\ log' = <<>>
                         /\ UNCHANGED <<savedFocusElement, hasSavedFocus, cleanup,
                                        keydownListeners, focusinListeners>>]_vars

\* in an Active session, the focus went from the first button to the last one
\* by the browser's own Tab navigation
C31_Witness ==
  /\ Active(1)
  /\ Len(Tabbables(1)) = NumChildren
  /\ log = <<Call("focus", 0, N.last1)>>
  /\ activeElement = N.last1

RECURSIVE TreeRoot(_, _)
TreeRoot(d, n) ==
  IF n = Null THEN Null
  ELSE IF d[n].kind = "shadow" THEN n
  ELSE TreeRoot(d, d[n].parent)
\* e is a proper descendant of c in c's own tree
Below(d, c, e) == e # c /\ contains(d, c, e)
\* e lies in a shadow tree hanging below c, every root on the way being open
RECURSIVE ThroughOpenRoots(_, _, _)
ThroughOpenRoots(d, c, e) ==
  LET r == TreeRoot(d, e)
  IN /\ r # Null
     /\ r # c
     /\ d[r].mode = "open"
     /\ \/ Below(d, c, d[r].host)
        \/ ThroughOpenRoots(d, c, d[r].host)
InAnswer(e) == \E i \in 1..Len(Answer) : Answer[i] = e

(***************************************************************************)
(* C33.  With includeShadowDOM enabled the result of getFocusableElements  *)
(* holds the eligible elements of every open shadow root below the         *)
(* container, through nested open roots, after all elements of the         *)
(* container's own tree of the same tabindex bucket, wherever the host     *)
(* stands; elements behind a closed root never appear; with                *)
(* includeShadowDOM disabled no element of a shadow tree appears.          *)
(***************************************************************************)
C33_ShadowElementsAfterLight ==
  (Asked("getFocusableElements") /\ Argument # Null)
    => LET c == Argument
           tabbableOnly == Given(OptionsGiven, "onlyTabbable", FALSE)
           includeShadowDOM == Given(OptionsGiven, "includeShadowDOM", TRUE)
       IN /\ \A e \in DOMAIN dom :
               (/\ includeShadowDOM
                /\ dom[e].kind = "element"
                /\ ThroughOpenRoots(dom, c, e)
                /\ Classified(dom, e, tabbableOnly)) => InAnswer(e)
          /\ \A i, j \in 1..Len(Answer) :
               (/\ Below(dom, c, Answer[i])
                /\ ~Below(dom, c, Answer[j])
                /\ PositiveTabIndex(dom, Answer[i]) = PositiveTabIndex(dom, Answer[j]))
                 => i < j
          /\ \A e \in DOMAIN dom :
               InAnswer(e) => Below(dom, c, e) \/ ThroughOpenRoots(dom, c, e)
          /\ ~includeShadowDOM => \A e \in DOMAIN dom : InAnswer(e) => Below(dom, c, e)

\* all roots open: the button of the nested tree, declared with tabindex 1,
\* follows the container's own button of tabindex 1 and precedes the rest
C33_Witness ==
  /\ Asked("getFocusableElements")
  /\ Argument = Sh.container
  /\ \A r \in ShadowRoots : dom[r].mode = "open"
  /\ dom[Sh.early].tabindex = "1" /\ dom[Sh.deep].tabindex = "1"
  /\ Len(Answer) = 5
  /\ Answer[1] = Sh.early /\ Answer[2] = Sh.deep /\ Answer[5] = Sh.late

(***************************************************************************)
(* C39.  The list returned by getFocusableElements holds each element at   *)
(* most once, for every container and options object, containers with      *)
(* several shadow hosts and with nested open shadow roots included.        *)
(***************************************************************************)
C39_EachElementOnce ==
  Asked("getFocusableElements")
    => \A i, j \in 1..Len(Answer) : Answer[i] = Answer[j] => i = j

\* all roots open, shadow trees included: the buttons of the three shadow
\* trees are in the list, next to the two of the container's own tree
C39_Witness ==
  /\ Asked("getFocusableElements")
  /\ Argument = Sh.container
  /\ \A r \in ShadowRoots : dom[r].mode = "open"
  /\ \A e \in {Sh.early, Sh.middle, Sh.inner, Sh.deep, Sh.late} : InAnswer(e)
  /\ Len(Answer) = 5

(***************************************************************************)
(* C38.  The pre-filter never loses an eligible element: every descendant  *)
(* of the container in its own tree for which the selected classifier is   *)
(* true is in the result of getFocusableElements.                          *)
(***************************************************************************)
C38_PreFilterLosesNothing ==
  (Asked("getFocusableElements") /\ Argument # Null)
    => \A e \in DOMAIN dom :
         (/\ dom[e].kind = "element"
          /\ Below(dom, Argument, e)
          /\ Classified(dom, e, Given(OptionsGiven, "onlyTabbable", FALSE)))
           => InAnswer(e)

\* an editable div without tabindex, focusable by the last rule of the
\* classifier only, is in the list
C38_Witness ==
  /\ Asked("getFocusableElements")
  /\ dom[Fx.firstItem].tag = "div"
  /\ dom[Fx.firstItem].tabindex = NoAttr
  /\ dom[Fx.firstItem].contentEditable
  /\ InAnswer(Fx.firstItem)

(***************************************************************************)
(* C34.  With two Active sessions over disjoint containers, both with      *)
(* lockFocus and each with a tabbable element, the handling of a focus     *)
(* arrival ends by itself: each focusin listener pulls the focus back at   *)
(* most once, and no focus() call is cut short by an exhausted call stack  *)
(* (which focusFirstElement would catch and log).                          *)
(***************************************************************************)
C34_FocusArrivalSettles ==
  [][(/\ layout = "sibling"
      /\ \A s \in Sessions :
           /\ Active(s) /\ FocusinInstalled(s) /\ props[s].lockFocus
           /\ Len(Tabbables(s)) >= 1
      /\ UserFocus(N.opener))
       => /\ CallsIn(log', "console.error") = 0
          /\ CallsIn(log', "preventDefault") <= Cardinality(Sessions)]_vars

(***************************************************************************)
(* C35.  Auto-focus runs at most once per activation: a commit that leaves *)
(* the session Active and its autoFocus option as it was, the auto-focus   *)
(* of the activation having run already, schedules no further auto-focus.  *)
(***************************************************************************)
C35_AutoFocusOncePerActivation ==
  [][(/\ Active(1)
      /\ ~InSeq(timers, 1)
      /\ ActiveIn(mounted', props', containerRef', keydownListeners', 1)
      /\ props'[1].autoFocus = props[1].autoFocus)
       => ~InSeq(timers', 1)]_vars

(***************************************************************************)
(* C36.  Across any sequence of re-renders and option changes a session    *)
(* has at most one key listener, at most one focusin listener and at most  *)
(* one pending auto-focus timer.                                           *)
(***************************************************************************)
C36_AtMostOneOfEach ==
  \A s \in Sessions :
    /\ Cardinality({i \in 1..Len(keydownListeners) : keydownListeners[i].session = s}) <= 1
    /\ Cardinality({i \in 1..Len(focusinListeners) : focusinListeners[i] = s}) <= 1
    /\ Cardinality({i \in 1..Len(timers) : timers[i] = s}) <= 1

\* a re-render changed lockFocus and onEscapeKey while the auto-focus was
\* pending: one listener of each kind and the one timer
C36_Witness ==
  /\ Active(1)
  /\ hasSavedFocus[1]
  /\ props[1].onEscapeKey # Undefined
  /\ ~props[1].restoreFocus
  /\ keydownListeners = <<KeyListener(1, props[1].onEscapeKey)>>
  /\ focusinListeners = <<1>>
  /\ timers = <<1>>

(***************************************************************************)
(* C37.  focusFirstElement returns a non-null element only if that element *)
(* is the document's active element when the call returns.                 *)
(***************************************************************************)
C37_ReturnedElementHasFocus ==
  (log # <<>> /\ log[1].op = "focusFirstElement" /\ log[Len(log)].op = "return")
    => (log[Len(log)].e # Null => activeElement = log[Len(log)].e)

====
